---- MODULE Spec2Model ----
(***************************************************************************)
(* Brand-visibility analytics middleware: the search-augmented collector   *)
(* (ConcurrentDataCollector behind the /gemini-serp route), the shared     *)
(* ExecutionTracker, the text-only collectors (provider call, response     *)
(* parser, metrics) and the single-transaction persistence                 *)
(* (SearchTrackingDB.save_complete_snapshot).                              *)
(***************************************************************************)
EXTENDS Integers, Sequences, FiniteSets, TLC

(***************************************************************************)
(* Python values.  Strings are sequences of characters.  An optional value *)
(* (a value that may be None) is a sequence of length 0 or 1.              *)
(***************************************************************************)
None == <<>>
Some(x) == <<x>>
IsNone(o) == o = <<>>
Val(o) == o[1]

EmptyStr == <<>>

UpperToLower ==
    [A |-> "a", B |-> "b", C |-> "c", D |-> "d", E |-> "e", F |-> "f", G |-> "g",
     H |-> "h", I |-> "i", J |-> "j", K |-> "k", L |-> "l", M |-> "m", N |-> "n",
     O |-> "o", P |-> "p", Q |-> "q", R |-> "r", S |-> "s", T |-> "t", U |-> "u",
     V |-> "v", W |-> "w", X |-> "x", Y |-> "y", Z |-> "z"]

\* str.lower()
Lower(s) ==
    [i \in 1..Len(s) |-> IF s[i] \in DOMAIN UpperToLower THEN UpperToLower[s[i]] ELSE s[i]]

\* Python's `sub in s` on strings
Contains(sub, s) ==
    \E i \in 0..(Len(s) - Len(sub)) : SubSeq(s, i + 1, i + Len(sub)) = sub

\* position of the first occurrence of sub in s at or after index from (0 if none)
FindFrom(sub, s, from) ==
    LET hits == {i \in from..(Len(s) - Len(sub) + 1) : SubSeq(s, i, i + Len(sub) - 1) = sub}
    IN  IF hits = {} THEN 0 ELSE CHOOSE i \in hits : \A j \in hits : i <= j

WwwDot == <<"w","w","w",".">>

\* str.replace('www.', ''): every non-overlapping occurrence, left to right
RECURSIVE ReplaceWww(_)
ReplaceWww(s) ==
    LET p == FindFrom(WwwDot, s, 1)
    IN  IF p = 0 THEN s
        ELSE SubSeq(s, 1, p - 1) \o ReplaceWww(SubSeq(s, p + 4, Len(s)))

SchemeChars ==
    {"a","b","c","d","e","f","g","h","i","j","k","l","m","n","o","p","q","r","s","t",
     "u","v","w","x","y","z","+","-","."} \cup DOMAIN UpperToLower

\* urllib.parse.urlparse(url).netloc: the text between a leading "//" (after an
\* optional scheme) and the next "/", "?" or "#"
Netloc(url) ==
    LET colon == FindFrom(<<":">>, url, 1)
        hasScheme == /\ colon > 1
                     /\ \A i \in 1..(colon - 1) : url[i] \in SchemeChars
        rest  == IF hasScheme THEN SubSeq(url, colon + 1, Len(url)) ELSE url
        ends  == {i \in 3..Len(rest) : rest[i] \in {"/", "?", "#"}}
        stop  == IF ends = {} THEN Len(rest) + 1 ELSE CHOOSE i \in ends : \A j \in ends : i <= j
    IN  IF Len(rest) >= 2 /\ SubSeq(rest, 1, 2) = <<"/","/">>
        THEN SubSeq(rest, 3, stop - 1)
        ELSE EmptyStr

\* any(brand.lower() in text for brand in brand_domains)
AnyBrandIn(brand_domains, text) ==
    \E i \in 1..Len(brand_domains) : Contains(Lower(brand_domains[i]), text)

Min(a, b) == IF a <= b THEN a ELSE b

RECURSIVE SumSeq(_)
SumSeq(s) == IF s = <<>> THEN 0 ELSE s[1] + SumSeq(Tail(s))

\* round(x, 2) of the quotient num/den*100, kept as hundredths of a percent
RoundPct(num, den) == (num * 20000 + den) \div (2 * den)

\* outcome of a call: a returned value or a raised exception
Ok(v) == [ok |-> TRUE, val |-> v]
Raise(e) == [ok |-> FALSE, err |-> e]

(***************************************************************************)
(* Metrics of the text-only collectors.  `parsed` is the parser's output:  *)
(*   ai_overview        [kind: "str" | "dict" | "other", text]             *)
(*   citations          sequence of [url]                                  *)
(*   domain_summary     sequence of [domain, count]                        *)
(*   top_recommendation [kind: "str" | "dict" | "none", domain]            *)
(* Percentages are kept in hundredths (round(x, 2) * 100).                 *)
(***************************************************************************)
AiOverviewText(parsed) ==
    IF parsed.ai_overview.kind \in {"str", "dict"} THEN parsed.ai_overview.text ELSE EmptyStr

TopRecDomain(parsed) ==
    IF parsed.top_recommendation.kind \in {"str", "dict"}
    THEN Lower(parsed.top_recommendation.domain)
    ELSE EmptyStr

\* domain of a citation as the synthesis loop computes it
CitationDomain(url) == ReplaceWww(Lower(Netloc(url)))

\* domain_counts built by the loop over the citations, as a sequence of
\* [domain, count] in first-seen order (dict insertion order)
RECURSIVE DomainCounts(_, _)
DomainCounts(citations, acc) ==
    IF citations = <<>> THEN acc
    ELSE LET url == citations[1].url
             d == CitationDomain(url)
             hit == {i \in 1..Len(acc) : acc[i].domain = d}
             acc2 == IF url = EmptyStr THEN acc
                     ELSE IF hit = {} THEN Append(acc, [domain |-> d, count |-> 1])
                     ELSE [i \in 1..Len(acc) |->
                             IF i \in hit THEN [acc[i] EXCEPT !.count = @ + 1] ELSE acc[i]]
         IN  DomainCounts(Tail(citations), acc2)

EffectiveDomainSummary(parsed) ==
    IF parsed.domain_summary = <<>> /\ parsed.citations # <<>>
    THEN DomainCounts(parsed.citations, <<>>)
    ELSE parsed.domain_summary

BrandEntries(summary, brand_domains) ==
    {i \in 1..Len(summary) : AnyBrandIn(brand_domains, Lower(summary[i].domain))}

BrandCount(summary, brand_domains) ==
    SumSeq([i \in 1..Len(summary) |->
              IF i \in BrandEntries(summary, brand_domains) THEN summary[i].count ELSE 0])

TotalDomainCounts(summary) == SumSeq([i \in 1..Len(summary) |-> summary[i].count])

ShareOfVoiceText(summary, brand_domains) ==
    IF TotalDomainCounts(summary) > 0
    THEN RoundPct(BrandCount(summary, brand_domains), TotalDomainCounts(summary))
    ELSE 0

BrandMentionedText(parsed, summary, brand_domains) ==
    \/ BrandEntries(summary, brand_domains) # {}
    \/ /\ AiOverviewText(parsed) # EmptyStr
       /\ AnyBrandIn(brand_domains, Lower(AiOverviewText(parsed)))

BrandInCitations(citations, brand_domains) ==
    \E i \in 1..Len(citations) : AnyBrandIn(brand_domains, Lower(citations[i].url))

\* a faulty variant of the score: the 40 points do not ask for an overview text
VisibilityTextAnyMention(parsed, summary, brand_domains) ==
    Min(100,
        (IF BrandMentionedText(parsed, summary, brand_domains) THEN 40 ELSE 0)
      + (IF TopRecDomain(parsed) # EmptyStr /\ AnyBrandIn(brand_domains, TopRecDomain(parsed))
         THEN 30 ELSE 0)
      + (IF BrandInCitations(parsed.citations, brand_domains) THEN 20 ELSE 0)
      + (IF BrandCount(summary, brand_domains) > 0 THEN 10 ELSE 0))

VisibilityText(parsed, summary, brand_domains) ==
    Min(100,
        (IF BrandMentionedText(parsed, summary, brand_domains) /\ AiOverviewText(parsed) # EmptyStr
         THEN 40 ELSE 0)
      + (IF TopRecDomain(parsed) # EmptyStr /\ AnyBrandIn(brand_domains, TopRecDomain(parsed))
         THEN 30 ELSE 0)
      + (IF BrandInCitations(parsed.citations, brand_domains) THEN 20 ELSE 0)
      + (IF BrandCount(summary, brand_domains) > 0 THEN 10 ELSE 0))

IntensityText(citations) == Min(100, Len(citations) * 8)

CalculateMetricsFromGemini(parsed, brand_domains) ==
    LET summary == EffectiveDomainSummary(parsed)
    IN  [total_citations |-> Len(parsed.citations),
         brand_mentioned |-> BrandMentionedText(parsed, summary, brand_domains),
         brand_citations |-> BrandCount(summary, brand_domains),
         share_of_voice_percentage |-> ShareOfVoiceText(summary, brand_domains),
         visibility_score |-> VisibilityText(parsed, summary, brand_domains),
         intensity_score |-> IntensityText(parsed.citations)]

CalculateMetricsFromClaude(parsed, brand_domains) ==
    LET summary == EffectiveDomainSummary(parsed)
    IN  [total_citations |-> Len(parsed.citations),
         brand_mentioned |-> BrandMentionedText(parsed, summary, brand_domains),
         brand_citations |-> BrandCount(summary, brand_domains),
         share_of_voice_percentage |-> ShareOfVoiceText(summary, brand_domains),
         visibility_score |-> VisibilityText(parsed, summary, brand_domains),
         intensity_score |-> IntensityText(parsed.citations)]

(***************************************************************************)
(* Search features.  A raw search payload is modelled by                   *)
(*   knowledge_graph, answer_box, featured_snippet, related_questions      *)
(*                     BOOLEAN: the key holds a dict                       *)
(*   ai_overview       "absent" | "no_token" | "token"                     *)
(*   ov_fetch          outcome of the second fetch by page token:          *)
(*                     "raise" | "empty" | "error" | "content"             *)
(*   references        the references of the fetched overview, a sequence  *)
(*                     of [link (optional string), title, snippet]         *)
(*   organic_results   sequence of [link (optional string)]                *)
(***************************************************************************)
ORGANIC_LIMIT == 10

TakeFirst(seq, n) == SubSeq(seq, 1, Min(n, Len(seq)))

ExtractKnowledgeGraph(data) == data.knowledge_graph

\* "answer_box" when the answer box is a dict, else "featured_snippet" when
\* the featured snippet is one, else None
ExtractAnswerBoxFull(data) ==
    IF data.answer_box THEN Some("answer_box")
    ELSE IF data.featured_snippet THEN Some("featured_snippet")
    ELSE None

ExtractAiOverview(data) ==
    IF data.ai_overview = "absent" THEN None
    ELSE IF data.ai_overview = "token" /\ data.ov_fetch \in {"raise", "empty", "error"} THEN None
    ELSE IF data.ai_overview = "token"
         THEN Some([sources |-> IF data.references = <<>> THEN None ELSE Some(data.references)])
         ELSE Some([sources |-> None])

ExtractOrganicResults(data, limit) == TakeFirst(data.organic_results, limit)

\* a faulty variant of the detection: the last two elements change places
DetectAndExtractFeaturesSwapped(data) ==
    LET kg == ExtractKnowledgeGraph(data)
        ab == ExtractAnswerBoxFull(data)
        ai == ExtractAiOverview(data)
        org == ExtractOrganicResults(data, ORGANIC_LIMIT)
    IN  [detection |-> << IF kg THEN 1 ELSE 0,
                          IF ab # None THEN 1 ELSE 0,
                          IF org # <<>> THEN 1 ELSE 0,
                          IF ai # None THEN 1 ELSE 0 >>,
         knowledge_graph |-> kg,
         answer_box |-> ab,
         ai_overview |-> ai,
         organic_results |-> org,
         organic_results_count |-> Len(org)]

DetectAndExtractFeatures(data) ==
    LET kg == ExtractKnowledgeGraph(data)
        ab == ExtractAnswerBoxFull(data)
        ai == ExtractAiOverview(data)
        org == ExtractOrganicResults(data, ORGANIC_LIMIT)
    IN  [detection |-> << IF kg THEN 1 ELSE 0,
                          IF ab # None THEN 1 ELSE 0,
                          IF ai # None THEN 1 ELSE 0,
                          IF org # <<>> THEN 1 ELSE 0 >>,
         knowledge_graph |-> kg,
         answer_box |-> ab,
         ai_overview |-> ai,
         organic_results |-> org,
         organic_results_count |-> Len(org)]

\* bool(features.get(key)) for a key that holds a flag
FeatureFlag(features, key) ==
    IF key \in DOMAIN features THEN features[key] = TRUE ELSE FALSE

\* bool(features.get(key)) for a key that holds an optional value
FeaturePresent(features, key) ==
    IF key \in DOMAIN features THEN features[key] # None ELSE FALSE

\* any(brand.lower() in item.get('link', '').lower() for brand in brands):
\* .lower() of a None link raises as soon as one brand is tried
LinkRaises(items, brand_domains) ==
    brand_domains # <<>> /\ \E i \in 1..Len(items) : items[i].link = None

BrandLinkCount(items, brand_domains) ==
    Cardinality({i \in 1..Len(items) : AnyBrandIn(brand_domains, Lower(Val(items[i].link)))})

\* a faulty variant of the score: answer box and knowledge graph swap weights
VisibilitySerpSwapped(has_ai, has_ab, has_kg, has_fs, has_rq) ==
    Min((IF has_ai THEN 40 ELSE 0) + (IF has_ab THEN 20 ELSE 0) + (IF has_kg THEN 30 ELSE 0)
        + (IF has_fs THEN 25 ELSE 0) + (IF has_rq THEN 15 ELSE 0), 100)

VisibilitySerp(has_ai, has_ab, has_kg, has_fs, has_rq) ==
    Min((IF has_ai THEN 40 ELSE 0) + (IF has_ab THEN 30 ELSE 0) + (IF has_kg THEN 20 ELSE 0)
        + (IF has_fs THEN 25 ELSE 0) + (IF has_rq THEN 15 ELSE 0), 100)

ShareOfVoiceSerp(total_organic, brand_organic, total_citations, brand_citations) ==
    IF total_organic > 0 \/ total_citations > 0
    THEN RoundPct(brand_organic + brand_citations, total_organic + total_citations)
    ELSE 0

CalculateAllMetrics(features, brand_domains) ==
    LET has_kg == FeatureFlag(features, "knowledge_graph")
        has_ab == FeaturePresent(features, "answer_box")
        has_ai == FeaturePresent(features, "ai_overview")
        has_fs == FeaturePresent(features, "featured_snippet")
        has_rq == FeaturePresent(features, "related_questions")
        ai_overview == features.ai_overview
        ai_text == EmptyStr    \* ai_overview.get('overview', ''): the key is never set
        sources == Val(ai_overview).sources
        organic == features.organic_results
        vis == VisibilitySerp(has_ai, has_ab, has_kg, has_fs, has_rq)
    IN  IF ai_overview = None THEN Raise("AttributeError")
        ELSE IF sources = None THEN Raise("TypeError")
        ELSE IF LinkRaises(Val(sources), brand_domains) THEN Raise("AttributeError")
        ELSE IF LinkRaises(organic, brand_domains) THEN Raise("AttributeError")
        ELSE Ok([has_knowledge_graph |-> has_kg,
                 has_answer_box |-> has_ab,
                 has_ai_overview |-> has_ai,
                 has_featured_snippet |-> has_fs,
                 has_related_questions |-> has_rq,
                 brand_mentioned |-> AnyBrandIn(brand_domains, Lower(ai_text)),
                 total_citations |-> Len(Val(sources)),
                 brand_citations |-> BrandLinkCount(Val(sources), brand_domains),
                 total_organic_results |-> Len(organic),
                 brand_organic_positions |-> BrandLinkCount(organic, brand_domains),
                 visibility_score |-> vis,
                 intensity_score |-> vis,
                 share_of_voice_percentage |->
                     ShareOfVoiceSerp(Len(organic), BrandLinkCount(organic, brand_domains),
                                      Len(Val(sources)),
                                      BrandLinkCount(Val(sources), brand_domains))])

(***************************************************************************)
(* Citation sentiment (keyword rules) and the intent fallback              *)
(***************************************************************************)
positive_words ==
    <<<<"b","e","s","t">>,
      <<"g","o","o","d">>,
      <<"g","r","e","a","t">>,
      <<"e","x","c","e","l","l","e","n","t">>,
      <<"t","o","p">>,
      <<"r","e","c","o","m","m","e","n","d","e","d">>>>

negative_words ==
    <<<<"b","a","d">>,
      <<"w","o","r","s","t">>,
      <<"p","o","o","r">>,
      <<"a","v","o","i","d">>,
      <<"w","a","r","n","i","n","g">>,
      <<"i","s","s","u","e">>>>

high_indicators ==
    <<<<"d","a","t","a">>,
      <<"r","e","s","e","a","r","c","h">>,
      <<"s","t","u","d","y">>,
      <<"a","n","a","l","y","s","i","s">>,
      <<"r","e","p","o","r","t">>,
      <<"g","u","i","d","e">>,
      <<"t","u","t","o","r","i","a","l">>,
      <<"d","o","c","u","m","e","n","t","a","t","i","o","n">>,
      <<"o","f","f","i","c","i","a","l">>,
      <<"s","t","a","t","i","s","t","i","c","s">>,
      <<"f","a","c","t">>,
      <<"s","o","u","r","c","e">>,
      <<"e","v","i","d","e","n","c","e">>,
      <<"p","e","e","r","-","r","e","v","i","e","w","e","d">>,
      <<"p","u","b","l","i","s","h","e","d">>,
      <<"a","c","a","d","e","m","i","c">>>>

low_indicators ==
    <<<<"o","p","i","n","i","o","n">>,
      <<"b","l","o","g">>,
      <<"r","e","v","i","e","w">>,
      <<"p","e","r","s","o","n","a","l">>,
      <<"a","d">>,
      <<"s","p","o","n","s","o","r","e","d">>,
      <<"s","a","l","e">>,
      <<"b","u","y"," ","n","o","w">>,
      <<"l","i","m","i","t","e","d"," ","t","i","m","e">>,
      <<"s","u","b","s","c","r","i","b","e">>,
      <<"c","l","i","c","k"," ","h","e","r","e">>>>

informational_keywords ==
    <<<<"w","h","a","t">>,
      <<"h","o","w">>,
      <<"w","h","y">>,
      <<"w","h","e","n">>,
      <<"w","h","e","r","e">>,
      <<"e","x","p","l","a","i","n">>,
      <<"d","e","f","i","n","i","t","i","o","n">>>>

transactional_keywords ==
    <<<<"b","u","y">>,
      <<"p","u","r","c","h","a","s","e">>,
      <<"o","r","d","e","r">>,
      <<"p","r","i","c","e">>,
      <<"c","o","s","t">>,
      <<"d","e","a","l">>,
      <<"d","i","s","c","o","u","n","t">>>>

navigational_keywords ==
    <<<<"l","o","g","i","n">>,
      <<"s","i","g","n"," ","i","n">>,
      <<"d","o","w","n","l","o","a","d">>,
      <<"o","f","f","i","c","i","a","l">>,
      <<"w","e","b","s","i","t","e">>>>


CountIn(words, text) == Cardinality({i \in 1..Len(words) : Contains(words[i], text)})

SimpleSentimentAnalysis(title, snippet) ==
    LET text == Lower(title \o <<" ">> \o snippet)
        positive_count == CountIn(positive_words, text)
        negative_count == CountIn(negative_words, text)
    IN  IF positive_count > negative_count THEN "positive"
        ELSE IF negative_count > positive_count THEN "negative"
        ELSE "neutral"

CalculateAiReusability(text, title) ==
    LET combined_text == Lower(title \o <<" ">> \o text)
        score == CountIn(high_indicators, combined_text) - CountIn(low_indicators, combined_text)
    IN  IF text = EmptyStr THEN "Medium"
        ELSE IF score >= 3 THEN "High"
        ELSE IF score <= -2 THEN "Low"
        ELSE "Medium"

SENTIMENT_LIMIT == 10

RECURSIVE SentimentOf(_)
SentimentOf(sources) ==
    IF sources = <<>> THEN <<>>
    ELSE LET src == sources[1]
         IN  (IF src.link = None \/ src.link = Some(EmptyStr) THEN <<>>
              ELSE << [url |-> Val(src.link),
                       sentiment |-> SimpleSentimentAnalysis(src.title, src.snippet),
                       ai_reusability |-> CalculateAiReusability(src.snippet, src.title)] >>)
             \o SentimentOf(Tail(sources))

\* the body of the citation_sentiment sub-task
AnalyzeCitationSentiment(features) ==
    IF features.ai_overview = None THEN Raise("AttributeError")
    ELSE IF Val(features.ai_overview).sources = None THEN Ok(<<>>)
    ELSE Ok(SentimentOf(TakeFirst(Val(Val(features.ai_overview).sources), SENTIMENT_LIMIT)))

\* index of the first maximum of a sequence of numbers (max over a dict keeps
\* the first key on ties)
FirstMax(scores) ==
    CHOOSE i \in 1..Len(scores) :
        /\ \A j \in 1..Len(scores) : scores[j] <= scores[i]
        /\ \A j \in 1..(i - 1) : scores[j] < scores[i]

IntentNames == <<"informational", "transactional", "navigational">>

\* a faulty variant of the fallback: the default whatever the query holds
FallbackIntentInformational(query) ==
    [intent_type |-> "informational", confidence |-> <<1, 2>>]

\* confidence is kept as the pair numerator/denominator
FallbackIntentAnalysis(query) ==
    LET q == Lower(query)
        scores == << CountIn(informational_keywords, q),
                     CountIn(transactional_keywords, q),
                     CountIn(navigational_keywords, q) >>
        total == SumSeq(scores)
    IN  IF total = 0
        THEN [intent_type |-> "informational", confidence |-> <<1, 2>>]
        ELSE [intent_type |-> IntentNames[FirstMax(scores)],
              confidence |-> <<scores[FirstMax(scores)], total>>]

(***************************************************************************)
(* ExecutionTracker: execution_data maps a service name to the record of   *)
(* its last tracked call, or to None while the key is unset.               *)
(***************************************************************************)
Services == <<"serpapi", "gemini", "database">>

EmptyExecutionData == [s \in {"serpapi", "gemini", "database"} |-> None]

\* the finally-block of track_service's wrapper
TrackRecord(data, service_name, service_status, time_ms, error) ==
    [data EXCEPT ![service_name] =
        Some([status |-> service_status, time_ms |-> time_ms, error |-> error])]

StatusOf(data, svc) == IF data[svc] = None THEN "not_run" ELSE Val(data[svc]).status

TimeOf(data, svc) == IF data[svc] = None THEN 0 ELSE Val(data[svc]).time_ms

TotalTime(data) == SumSeq([i \in 1..Len(Services) |-> TimeOf(data, Services[i])])

\* a faulty variant of the rule: the critical service is taken to be gemini
DetermineLogLevelByGemini(data) ==
    LET statuses == {StatusOf(data, Services[i]) : i \in {j \in 1..Len(Services) : data[Services[j]] # None}}
    IN  IF "failed" \in statuses
        THEN IF StatusOf(data, "gemini") = "failed" THEN "CRITICAL" ELSE "ERROR"
        ELSE IF "timeout" \in statuses THEN "WARNING"
        ELSE "INFO"

\* a faulty variant of the rule: a timeout is looked for before a failure
DetermineLogLevelTimeoutFirst(data) ==
    LET statuses == {StatusOf(data, Services[i]) : i \in {j \in 1..Len(Services) : data[Services[j]] # None}}
    IN  IF "timeout" \in statuses THEN "WARNING"
        ELSE IF "failed" \in statuses
        THEN IF StatusOf(data, "serpapi") = "failed" THEN "CRITICAL" ELSE "ERROR"
        ELSE "INFO"

\* _determine_log_level over the tracked records
DetermineLogLevel(data) ==
    LET statuses == {StatusOf(data, Services[i]) : i \in {j \in 1..Len(Services) : data[Services[j]] # None}}
    IN  IF "failed" \in statuses
        THEN IF StatusOf(data, "serpapi") = "failed" THEN "CRITICAL" ELSE "ERROR"
        ELSE IF "timeout" \in statuses THEN "WARNING"
        ELSE "INFO"

GetErrorService(data) ==
    LET failed == {i \in 1..Len(Services) : StatusOf(data, Services[i]) = "failed"}
    IN  IF failed = {} THEN None
        ELSE Some(Services[CHOOSE i \in failed : \A j \in failed : i <= j])

GetErrorMessage(data) ==
    LET errs == {i \in 1..Len(Services) :
                    data[Services[i]] # None /\ Val(data[Services[i]]).error # None}
    IN  IF errs = {} THEN None
        ELSE Val(data[Services[CHOOSE i \in errs : \A j \in errs : i <= j]]).error

GetLogData(data, query) ==
    [query |-> query,
     serpapi_status |-> StatusOf(data, "serpapi"),
     gemini_status |-> StatusOf(data, "gemini"),
     database_status |-> StatusOf(data, "database"),
     serpapi_time_ms |-> Some(TimeOf(data, "serpapi")),
     gemini_time_ms |-> Some(TimeOf(data, "gemini")),
     database_time_ms |-> Some(TimeOf(data, "database")),
     total_time_ms |-> TotalTime(data),
     log_level |-> DetermineLogLevel(data),
     error_service |-> GetErrorService(data),
     error_message |-> GetErrorMessage(data)]

(***************************************************************************)
(* Merge step of the search-augmented collector                            *)
(***************************************************************************)
\* next((s for s in citation_sentiment if s['url'] == url), {})
SentimentFor(citation_sentiment, url) ==
    LET hit == {i \in 1..Len(citation_sentiment) : citation_sentiment[i].url = url}
    IN  IF hit = {} THEN None
        ELSE Some(citation_sentiment[CHOOSE i \in hit : \A j \in hit : i <= j])

RECURSIVE CitationRows(_, _, _, _)
CitationRows(sources, idx, brand_domains, citation_sentiment) ==
    IF sources = <<>> THEN <<>>
    ELSE LET src == sources[1]
             url == Val(src.link)
             domain == Lower(Netloc(url))
             sd == SentimentFor(citation_sentiment, url)
         IN  (IF src.link = None \/ src.link = Some(EmptyStr) THEN <<>>
              ELSE << [domain |-> domain,
                       url |-> url,
                       is_brand |-> AnyBrandIn(brand_domains, domain),
                       sentiment |-> IF sd = None THEN "neutral" ELSE Val(sd).sentiment,
                       ai_reusability_score |->
                           IF sd = None THEN "Medium" ELSE Val(sd).ai_reusability,
                       citation_index |-> idx] >>)
             \o CitationRows(Tail(sources), idx + 1, brand_domains, citation_sentiment)

\* citation_sentiment is the optional value stored under the task's key: building
\* the generator over None raises for the first source that has a url
PrepareCitationsData(features, brand_domains, citation_sentiment) ==
    LET sources == Val(Val(features.ai_overview).sources)
        withUrl == {i \in 1..Len(sources) :
                       sources[i].link # None /\ sources[i].link # Some(EmptyStr)}
    IN  IF features.ai_overview = None THEN Raise("AttributeError")
        ELSE IF Val(features.ai_overview).sources = None THEN Raise("TypeError")
        ELSE IF citation_sentiment = None /\ withUrl # {} THEN Raise("TypeError")
        ELSE Ok(CitationRows(sources, 0, brand_domains,
                             IF citation_sentiment = None THEN <<>> ELSE Val(citation_sentiment)))

POSITION_LIMIT == 10

\* a faulty variant of the ranking: the rank counts the rows emitted, not
\* the results seen
RECURSIVE PositionRowsRankByEmitted(_, _, _)
PositionRowsRankByEmitted(organic, idx, brand_domains) ==
    IF organic = <<>> THEN <<>>
    ELSE LET res == organic[1]
             url == Val(res.link)
             domain == Lower(Netloc(url))
         IN  IF res.link = None \/ res.link = Some(EmptyStr)
             THEN PositionRowsRankByEmitted(Tail(organic), idx, brand_domains)
             ELSE << [position |-> idx,
                      domain |-> domain,
                      url |-> url,
                      is_brand |-> AnyBrandIn(brand_domains, domain)] >>
                  \o PositionRowsRankByEmitted(Tail(organic), idx + 1, brand_domains)

RECURSIVE PositionRows(_, _, _)
PositionRows(organic, idx, brand_domains) ==
    IF organic = <<>> THEN <<>>
    ELSE LET res == organic[1]
             url == Val(res.link)
             domain == Lower(Netloc(url))
         IN  (IF res.link = None \/ res.link = Some(EmptyStr) THEN <<>>
              ELSE << [position |-> idx,
                       domain |-> domain,
                       url |-> url,
                       is_brand |-> AnyBrandIn(brand_domains, domain)] >>)
             \o PositionRows(Tail(organic), idx + 1, brand_domains)

PreparePositionsData(features, brand_domains) ==
    PositionRows(TakeFirst(features.organic_results, POSITION_LIMIT), 1, brand_domains)

\* gemini_data maps a task name to None while the key is unset and to
\* Some(v) once written, where v is the task's optional result
IntentDefault == [intent_type |-> "informational", confidence |-> <<1, 2>>]

\* gemini_data.get('intent', {})
GetIntent(gemini_data) ==
    IF gemini_data["intent"] = None THEN Some(IntentDefault) ELSE Val(gemini_data["intent"])

\* gemini_data.get('citation_sentiment', [])
GetCitationSentiment(gemini_data) ==
    IF gemini_data["citation_sentiment"] = None THEN Some(<<>>)
    ELSE Val(gemini_data["citation_sentiment"])

StructureForStorage(prompt, features, gemini_data, brand_domains, tracker_data) ==
    LET intent == GetIntent(gemini_data)
        citation_sentiment == GetCitationSentiment(gemini_data)
        metrics == CalculateAllMetrics(features, brand_domains)
        citations == PrepareCitationsData(features, brand_domains, citation_sentiment)
    IN  IF ~metrics.ok THEN metrics
        ELSE IF intent = None THEN Raise("AttributeError")
        ELSE IF ~citations.ok THEN citations
        ELSE Ok([snapshot_data |->
                    [query |-> prompt,
                     intent_type |-> Val(intent).intent_type,
                     intent_confidence |-> Val(intent).confidence,
                     metrics |-> metrics.val],
                 citations_data |-> citations.val,
                 positions_data |-> PreparePositionsData(features, brand_domains),
                 log_data |-> GetLogData(tracker_data, prompt)])

\* the intent sub-task: generate_content either raises or returns the
\* standard response dict; re.search over a value that is not a string raises
\* TypeError; every exception is absorbed into the keyword fallback
AnalyzeIntent(query, reply) ==
    IF ~reply.ok THEN FallbackIntentAnalysis(query)
    ELSE IF reply.val.type # "str" THEN FallbackIntentAnalysis(query)
    ELSE IF reply.val.json = None THEN FallbackIntentAnalysis(query)
    ELSE Val(reply.val.json)

(***************************************************************************)
(* Inputs                                                                  *)
(***************************************************************************)
NumRuns == 2
MaxMs == 2
MAX_WORKERS == 5

Runs == 1..NumRuns
Durations == 1..MaxMs
Tasks == {"intent", "citation_sentiment"}

UrlAcme == <<"h","t","t","p","s",":","/","/","a","c","m","e",".","c","o","m","/","a">>
UrlOther == <<"h","t","t","p","s",":","/","/","w","w","w",".","o","t","h","e","r",".","o","r","g","/","c">>
BrandAcme == <<"A","c","m","e",".","c","o","m">>
TextBest == <<"b","e","s","t"," ","g","u","i","d","e">>
TextData == <<"o","f","f","i","c","i","a","l"," ","d","a","t","a"," ","r","e","s","e","a","r","c","h"," ","s","t","u","d","y">>
QueryBuy == <<"b","u","y"," ","a","c","m","e">>
QueryPlain == <<"a","c","m","e">>

Queries == <<QueryBuy, QueryPlain>>
QueryOf(r) == Queries[((r - 1) % Len(Queries)) + 1]

RefAcme == [link |-> Some(UrlAcme), title |-> TextBest, snippet |-> TextData]
RefOther == [link |-> Some(UrlOther), title |-> EmptyStr, snippet |-> EmptyStr]
RefNoUrl == [link |-> Some(EmptyStr), title |-> EmptyStr, snippet |-> EmptyStr]
RefNoLink == [link |-> None, title |-> EmptyStr, snippet |-> EmptyStr]

BasePayload ==
    [knowledge_graph |-> FALSE, answer_box |-> FALSE, featured_snippet |-> FALSE,
     related_questions |-> FALSE, ai_overview |-> "absent", ov_fetch |-> "content",
     references |-> <<>>, organic_results |-> << [link |-> Some(UrlOther)] >>]

\* the requests of the search-augmented runs: brand_domains of the request
\* and the payload the search provider answers with
Requests ==
    { [brand_domains |-> <<BrandAcme>>,
       payload |-> [BasePayload EXCEPT !.knowledge_graph = TRUE, !.featured_snippet = TRUE,
                                       !.related_questions = TRUE]],
      [brand_domains |-> <<BrandAcme>>,
       payload |-> [BasePayload EXCEPT !.ai_overview = "token",
                       !.references = <<RefAcme, RefOther>>,
                       !.organic_results = << [link |-> Some(UrlAcme)],
                                              [link |-> Some(UrlOther)] >>]],
      [brand_domains |-> <<>>,
       payload |-> [BasePayload EXCEPT !.ai_overview = "token",
                       !.references = <<RefNoUrl, RefNoLink>>, !.answer_box = TRUE]],
      [brand_domains |-> <<BrandAcme>>,
       payload |-> [BasePayload EXCEPT !.ai_overview = "token", !.ov_fetch = "empty",
                       !.references = <<RefAcme>>]],
      [brand_domains |-> <<>>,
       payload |-> [BasePayload EXCEPT !.ai_overview = "no_token"]] }

\* what generate_content gives the intent sub-task: an exception, or the
\* dict built by StandardServiceResponse.format_service_response
GeminiReplies ==
    { Raise("RuntimeError"), Ok([type |-> "dict", json |-> None]) }

(***************************************************************************)
(* State                                                                   *)
(***************************************************************************)
VARIABLES
    pc,              \* [Runs -> control point of the request thread]
    brands,          \* [Runs -> brand_domains of the request]
    serpapi_data,    \* [Runs -> optional features returned by the search fetch]
    futures,         \* [Runs -> [Tasks -> state and outcome of the future]]
    gemini_reply,    \* [Runs -> optional outcome of the intent task's provider call]
    results,         \* [Runs -> [Tasks -> None while unset, Some(optional value) once written]]
    execution_data,  \* the process-wide ExecutionTracker.execution_data
    own_data,        \* history: [Runs -> the tracker records written by the run itself]
    structured,      \* [Runs -> optional structured_data returned by collect_all_data]
    route_log,       \* [Runs -> optional log_data the route hands to the save]
    session,         \* [Runs -> rows pending in the run's database session]
    db,              \* committed rows of the four tables
    next_id,         \* next value of the snapshot id sequence
    response,        \* [Runs -> optional HTTP result of the request]
    calc             \* a score computation: collector, its input, optional result

vars == <<pc, brands, serpapi_data, futures, gemini_reply, results, execution_data,
          own_data, structured, route_log, session, db, next_id, response, calc>>

NoFuture == [state |-> "none", outcome |-> None]

NoFutures == [t \in Tasks |-> NoFuture]

NoResults == [t \in Tasks |-> None]

EmptySession == [snapshot |-> None, citations |-> <<>>, positions |-> <<>>, log |-> None]

EmptyDb == [snapshots |-> {}, citations |-> {}, positions |-> {}, logs |-> {}]

NoCalc ==
    [collector |-> "none", parsed |-> None, features |-> None, brand_domains |-> <<>>,
     result |-> None]

Init ==
    /\ pc = [r \in Runs |-> "start"]
    /\ brands = [r \in Runs |-> <<>>]
    /\ serpapi_data = [r \in Runs |-> None]
    /\ futures = [r \in Runs |-> NoFutures]
    /\ gemini_reply = [r \in Runs |-> None]
    /\ results = [r \in Runs |-> NoResults]
    /\ execution_data = EmptyExecutionData
    /\ own_data = [r \in Runs |-> EmptyExecutionData]
    /\ structured = [r \in Runs |-> None]
    /\ route_log = [r \in Runs |-> None]
    /\ session = [r \in Runs |-> EmptySession]
    /\ db = EmptyDb
    /\ next_id = 1
    /\ response = [r \in Runs |-> None]
    /\ calc = NoCalc

\* the route's except branch: status error, message str(e)
ErrorResponse(e) == [status |-> "error", snapshot_id |-> None, message |-> Some(e)]

SuccessResponse(id) == [status |-> "success", snapshot_id |-> Some(id), message |-> None]

(***************************************************************************)
(* Search-augmented run: route track_gemini_serp -> collect_all_data.      *)
(* What a function holds in its locals is dropped when it returns.         *)
(***************************************************************************)
\* step 1, the search fetch returns: the tracker records serpapi success
FetchSerpapiData(r) ==
    /\ pc[r] = "start"
    /\ \E q \in Requests, ms \in Durations :
          /\ brands' = [brands EXCEPT ![r] = q.brand_domains]
          /\ serpapi_data' =
                [serpapi_data EXCEPT ![r] = Some(DetectAndExtractFeatures(q.payload))]
          /\ execution_data' = TrackRecord(execution_data, "serpapi", "success", ms, None)
          /\ own_data' = [own_data EXCEPT ![r] = TrackRecord(@, "serpapi", "success", ms, None)]
    /\ pc' = [pc EXCEPT ![r] = "submit"]
    /\ UNCHANGED <<futures, gemini_reply, results, structured, route_log, session, db,
                   next_id, response, calc>>

\* step 1, the search fetch raises: the tracker records the failure, the
\* exception leaves collect_all_data and the route answers with status error
FetchSerpapiRaises(r) ==
    /\ pc[r] = "start"
    /\ \E ms \in Durations :
          /\ execution_data' =
                TrackRecord(execution_data, "serpapi", "failed", ms, Some("RequestException"))
          /\ own_data' = [own_data EXCEPT ![r] =
                TrackRecord(@, "serpapi", "failed", ms, Some("RequestException"))]
    /\ response' = [response EXCEPT ![r] = Some(ErrorResponse("RequestException"))]
    /\ pc' = [pc EXCEPT ![r] = "done"]
    /\ UNCHANGED <<brands, serpapi_data, futures, gemini_reply, results, structured,
                   route_log, session, db, next_id, calc>>

\* a faulty variant of the fan-out: the sub-tasks may be submitted while the
\* search fetch has not returned
SubmitTasksBeforeFetch(r) ==
    /\ pc[r] \in {"start", "submit"}
    /\ futures' = [futures EXCEPT ![r] = [t \in Tasks |-> [state |-> "pending", outcome |-> None]]]
    /\ pc' = [pc EXCEPT ![r] = "collect"]
    /\ UNCHANGED <<brands, serpapi_data, gemini_reply, results, execution_data, own_data,
                   structured, route_log, session, db, next_id, response, calc>>

\* step 2: both sub-tasks are submitted to the executor
SubmitTasks(r) ==
    /\ pc[r] = "submit"
    /\ futures' = [futures EXCEPT ![r] = [t \in Tasks |-> [state |-> "pending", outcome |-> None]]]
    /\ pc' = [pc EXCEPT ![r] = "collect"]
    /\ UNCHANGED <<brands, serpapi_data, gemini_reply, results, execution_data, own_data,
                   structured, route_log, session, db, next_id, response, calc>>

\* the tasks that hold a worker: running, or blocked in a call for ever
RunningTasks == {rt \in Runs \X Tasks : futures[rt[1]][rt[2]].state \in {"running", "hung"}}

\* a worker of the pool takes a pending task
TaskStart(r, t) ==
    /\ futures[r][t].state = "pending"
    /\ Cardinality(RunningTasks) < MAX_WORKERS
    /\ futures' = [futures EXCEPT ![r][t].state = "running"]
    /\ UNCHANGED <<pc, brands, serpapi_data, gemini_reply, results, execution_data, own_data,
                   structured, route_log, session, db, next_id, response, calc>>

\* the tracked _analyze_intent runs to its end: it returns whatever the
\* provider did, so the tracker records gemini success
RunIntent(r) ==
    /\ futures[r]["intent"].state = "running"
    /\ \E reply \in GeminiReplies, ms \in Durations :
          /\ gemini_reply' = [gemini_reply EXCEPT ![r] = Some(reply)]
          /\ futures' = [futures EXCEPT ![r]["intent"] =
                [state |-> "finished", outcome |-> Some(Ok(AnalyzeIntent(QueryOf(r), reply)))]]
          /\ execution_data' = TrackRecord(execution_data, "gemini", "success", ms, None)
          /\ own_data' = [own_data EXCEPT ![r] = TrackRecord(@, "gemini", "success", ms, None)]
    /\ UNCHANGED <<pc, brands, serpapi_data, results, structured, route_log, session, db,
                   next_id, response, calc>>

\* the untracked _analyze_citation_sentiment runs to its end
RunCitationSentiment(r) ==
    /\ futures[r]["citation_sentiment"].state = "running"
    /\ futures' = [futures EXCEPT ![r]["citation_sentiment"] =
          [state |-> "finished", outcome |-> Some(AnalyzeCitationSentiment(Val(serpapi_data[r])))]]
    /\ UNCHANGED <<pc, brands, serpapi_data, gemini_reply, results, execution_data, own_data,
                   structured, route_log, session, db, next_id, response, calc>>

\* as_completed yields a finished future that was not yielded before
Completed(r, t) == futures[r][t].state = "finished" /\ results[r][t] = None

\* a faulty variant of the loop: the key is taken from the completion order
ResultKeyByOrder(r, t) ==
    IF \A u \in Tasks : results[r][u] = None THEN "intent" ELSE "citation_sentiment"

\* task_name = futures[future]: the key the loop writes for the future of t
ResultKey(r, t) == t

\* the value the collecting loop stores under the task's name
CollectedValue(outcome) == IF outcome.ok THEN Some(outcome.val) ELSE None

CollectResult(r, t) ==
    /\ pc[r] = "collect"
    /\ Completed(r, t)
    /\ results' = [results EXCEPT ![r][ResultKey(r, t)] =
          Some(CollectedValue(Val(futures[r][t].outcome)))]
    /\ UNCHANGED <<pc, brands, serpapi_data, futures, gemini_reply, execution_data, own_data,
                   structured, route_log, session, db, next_id, response, calc>>

\* a faulty variant of the loop: it ends after the first future it yields
AnyCollected(r) ==
    \E t \in Tasks : futures[r][t].state = "finished" /\ ~Completed(r, t)

\* the as_completed loop ends once every submitted future was yielded
AllCollected(r) == \A t \in Tasks : ~Completed(r, t) /\ futures[r][t].state = "finished"

\* the log_data literal the route passes to save_complete_snapshot
RouteLogData(prompt, total_ms) ==
    [query |-> prompt,
     serpapi_status |-> "success",
     gemini_status |-> "success",
     database_status |-> "success",
     serpapi_time_ms |-> None,
     gemini_time_ms |-> None,
     database_time_ms |-> None,
     total_time_ms |-> total_ms,
     log_level |-> "INFO",
     error_service |-> None,
     error_message |-> None]

\* step 3: _structure_for_storage; on return the route builds the save's
\* arguments, on an exception the route answers with status error
Merge(r) ==
    /\ pc[r] = "collect"
    /\ AllCollected(r)
    /\ LET out == StructureForStorage(QueryOf(r), Val(serpapi_data[r]), results[r],
                                      brands[r], execution_data)
       IN  IF out.ok
           THEN /\ structured' = [structured EXCEPT ![r] = Some(out.val)]
                /\ \E ms \in Durations :
                      route_log' = [route_log EXCEPT ![r] = Some(RouteLogData(QueryOf(r), ms))]
                /\ pc' = [pc EXCEPT ![r] = "save_snapshot"]
                /\ UNCHANGED <<response, gemini_reply>>
           ELSE /\ response' = [response EXCEPT ![r] = Some(ErrorResponse(out.err))]
                /\ gemini_reply' = [gemini_reply EXCEPT ![r] = None]
                /\ pc' = [pc EXCEPT ![r] = "done"]
                /\ UNCHANGED <<structured, route_log>>
    /\ brands' = [brands EXCEPT ![r] = <<>>]
    /\ serpapi_data' = [serpapi_data EXCEPT ![r] = None]
    /\ futures' = [futures EXCEPT ![r] = NoFutures]
    /\ results' = [results EXCEPT ![r] = NoResults]
    /\ own_data' = [own_data EXCEPT ![r] = EmptyExecutionData]
    /\ UNCHANGED <<execution_data, session, db, next_id, calc>>

(***************************************************************************)
(* save_complete_snapshot: one session, one transaction.  Rows added or    *)
(* flushed stay pending in the session until the commit.                   *)
(***************************************************************************)
SavePcs == {"save_snapshot", "save_citations", "save_positions", "save_log", "commit"}

ChildRows(snapshot_id, data) == [i \in 1..Len(data) |-> [snapshot_id |-> snapshot_id, row |-> data[i]]]

SeqRange(seq) == {seq[i] : i \in 1..Len(seq)}

\* session.commit(): every pending row becomes a row of its table
CommitRows(tables, sess) ==
    [snapshots |-> tables.snapshots \cup SeqRange(sess.snapshot),
     citations |-> tables.citations \cup SeqRange(sess.citations),
     positions |-> tables.positions \cup SeqRange(sess.positions),
     logs |-> tables.logs \cup SeqRange(sess.log)]

\* a faulty variant of the error path: the pending rows reach the tables
RollbackKeepsRows(tables, sess) == CommitRows(tables, sess)

\* session.rollback(): the pending rows are discarded
RollbackRows(tables, sess) == tables

\* snapshot = SearchSnapshot(**snapshot_data); session.add; session.flush
SaveSnapshot(r) ==
    /\ pc[r] = "save_snapshot"
    /\ session' = [session EXCEPT ![r].snapshot =
          Some([id |-> next_id, data |-> Val(structured[r]).snapshot_data])]
    /\ next_id' = next_id + 1
    /\ pc' = [pc EXCEPT ![r] = "save_citations"]
    /\ UNCHANGED <<brands, serpapi_data, futures, gemini_reply, results, execution_data,
                   own_data, structured, route_log, db, response, calc>>

SnapshotId(r) == Val(session[r].snapshot).id

SaveCitations(r) ==
    /\ pc[r] = "save_citations"
    /\ session' = [session EXCEPT ![r].citations =
          ChildRows(SnapshotId(r), Val(structured[r]).citations_data)]
    /\ pc' = [pc EXCEPT ![r] = "save_positions"]
    /\ UNCHANGED <<brands, serpapi_data, futures, gemini_reply, results, execution_data,
                   own_data, structured, route_log, db, next_id, response, calc>>

SavePositions(r) ==
    /\ pc[r] = "save_positions"
    /\ session' = [session EXCEPT ![r].positions =
          ChildRows(SnapshotId(r), Val(structured[r]).positions_data)]
    /\ pc' = [pc EXCEPT ![r] = "save_log"]
    /\ UNCHANGED <<brands, serpapi_data, futures, gemini_reply, results, execution_data,
                   own_data, structured, route_log, db, next_id, response, calc>>

\* log = ExecutionLog(snapshot_id=snapshot_id, **log_data); session.add(log)
SaveLog(r) ==
    /\ pc[r] = "save_log"
    /\ session' = [session EXCEPT ![r].log =
          Some([snapshot_id |-> SnapshotId(r), data |-> Val(route_log[r])])]
    /\ pc' = [pc EXCEPT ![r] = "commit"]
    /\ UNCHANGED <<brands, serpapi_data, futures, gemini_reply, results, execution_data,
                   own_data, structured, route_log, db, next_id, response, calc>>

\* session.commit(); return snapshot_id; the route answers with status success
Commit(r) ==
    /\ pc[r] = "commit"
    /\ db' = CommitRows(db, session[r])
    /\ response' = [response EXCEPT ![r] = Some(SuccessResponse(SnapshotId(r)))]
    /\ session' = [session EXCEPT ![r] = EmptySession]
    /\ structured' = [structured EXCEPT ![r] = None]
    /\ route_log' = [route_log EXCEPT ![r] = None]
    /\ gemini_reply' = [gemini_reply EXCEPT ![r] = None]
    /\ pc' = [pc EXCEPT ![r] = "done"]
    /\ UNCHANGED <<brands, serpapi_data, futures, results, execution_data, own_data,
                   next_id, calc>>

\* any statement of the try block raises: rollback, re-raise, close; the
\* route answers with status error
SaveFails(r) ==
    /\ pc[r] \in SavePcs
    /\ db' = RollbackRows(db, session[r])
    /\ session' = [session EXCEPT ![r] = EmptySession]
    /\ structured' = [structured EXCEPT ![r] = None]
    /\ route_log' = [route_log EXCEPT ![r] = None]
    /\ gemini_reply' = [gemini_reply EXCEPT ![r] = None]
    /\ response' = [response EXCEPT ![r] = Some(ErrorResponse("SQLAlchemyError"))]
    /\ pc' = [pc EXCEPT ![r] = "done"]
    /\ UNCHANGED <<brands, serpapi_data, futures, results, execution_data, own_data,
                   next_id, calc>>

Next ==
    \/ \E r \in Runs : FetchSerpapiData(r)
    \/ \E r \in Runs : FetchSerpapiRaises(r)
    \/ \E r \in Runs : SubmitTasks(r)
    \/ \E r \in Runs, t \in Tasks : TaskStart(r, t)
    \/ \E r \in Runs : RunIntent(r)
    \/ \E r \in Runs : RunCitationSentiment(r)
    \/ \E r \in Runs, t \in Tasks : CollectResult(r, t)
    \/ \E r \in Runs : Merge(r)
    \/ \E r \in Runs : SaveSnapshot(r)
    \/ \E r \in Runs : SaveCitations(r)
    \/ \E r \in Runs : SavePositions(r)
    \/ \E r \in Runs : SaveLog(r)
    \/ \E r \in Runs : Commit(r)
    \/ \E r \in Runs : SaveFails(r)

Spec == Init /\ [][Next]_vars

(***************************************************************************)
(* Score computations on their own: the input of one computation is drawn  *)
(* at the start, then one of the three collectors computes its metrics.    *)
(***************************************************************************)
MaxCount == 2
MaxCitations == 13

Counts == (-1)..MaxCount

BrandLists == {<<>>, <<BrandAcme>>}

DomainAcme == <<"a","c","m","e",".","c","o","m">>
DomainOther == <<"o","t","h","e","r",".","o","r","g">>
TextAcme == <<"t","r","y"," ","A","c","m","e",".","c","o","m">>

CitationList(n) ==
    IF n = 0 THEN <<>> ELSE [i \in 1..n |-> [url |-> IF i = 1 THEN UrlAcme ELSE UrlOther]]

CitationLists == {CitationList(n) : n \in {0, 1, 2, MaxCitations}}

DomainSummaries ==
    {<<>>}
    \cup {<< [domain |-> DomainAcme, count |-> c] >> : c \in Counts}
    \cup {<< [domain |-> DomainAcme, count |-> c], [domain |-> DomainOther, count |-> d] >> :
             c \in Counts, d \in Counts}

ParsedInputs ==
    [ai_overview : {[kind |-> "dict", text |-> EmptyStr], [kind |-> "dict", text |-> TextAcme],
                    [kind |-> "other", text |-> EmptyStr]},
     citations : CitationLists,
     domain_summary : DomainSummaries,
     top_recommendation : {[kind |-> "none", domain |-> EmptyStr],
                           [kind |-> "str", domain |-> DomainAcme],
                           [kind |-> "dict", domain |-> DomainOther]}]

MetricPayloads ==
    {[BasePayload EXCEPT !.ai_overview = a, !.knowledge_graph = kg, !.answer_box = ab,
                         !.featured_snippet = fs, !.references = refs] :
        a \in {"absent", "token"}, kg \in BOOLEAN, ab \in BOOLEAN, fs \in BOOLEAN,
        refs \in {<<>>, <<RefAcme, RefOther>>, <<RefNoLink>>}}

FeatureInputs == {DetectAndExtractFeatures(data) : data \in MetricPayloads}

InitMetrics ==
    /\ pc = [r \in Runs |-> "start"]
    /\ brands = [r \in Runs |-> <<>>]
    /\ serpapi_data = [r \in Runs |-> None]
    /\ futures = [r \in Runs |-> NoFutures]
    /\ gemini_reply = [r \in Runs |-> None]
    /\ results = [r \in Runs |-> NoResults]
    /\ execution_data = EmptyExecutionData
    /\ own_data = [r \in Runs |-> EmptyExecutionData]
    /\ structured = [r \in Runs |-> None]
    /\ route_log = [r \in Runs |-> None]
    /\ session = [r \in Runs |-> EmptySession]
    /\ db = EmptyDb
    /\ next_id = 1
    /\ response = [r \in Runs |-> None]
    /\ \E b \in BrandLists :
          \/ \E p \in ParsedInputs :
                calc = [NoCalc EXCEPT !.parsed = Some(p), !.brand_domains = b]
          \/ \E f \in FeatureInputs :
                calc = [NoCalc EXCEPT !.features = Some(f), !.brand_domains = b]

\* metrics = self._calculate_metrics_from_gemini(parsed, brand_domains)
ComputeGemini ==
    /\ calc.collector = "none"
    /\ calc.parsed # None
    /\ calc' = [calc EXCEPT !.collector = "gemini",
                   !.result = Some(Ok(CalculateMetricsFromGemini(Val(calc.parsed),
                                                                 calc.brand_domains)))]
    /\ UNCHANGED <<pc, brands, serpapi_data, futures, gemini_reply, results, execution_data,
                   own_data, structured, route_log, session, db, next_id, response>>

\* metrics = self._calculate_metrics_from_claude(parsed, brand_domains)
ComputeClaude ==
    /\ calc.collector = "none"
    /\ calc.parsed # None
    /\ calc' = [calc EXCEPT !.collector = "claude",
                   !.result = Some(Ok(CalculateMetricsFromClaude(Val(calc.parsed),
                                                                 calc.brand_domains)))]
    /\ UNCHANGED <<pc, brands, serpapi_data, futures, gemini_reply, results, execution_data,
                   own_data, structured, route_log, session, db, next_id, response>>

\* metrics = self._calculate_all_metrics(features, brand_domains)
ComputeSerp ==
    /\ calc.collector = "none"
    /\ calc.features # None
    /\ calc' = [calc EXCEPT !.collector = "serp",
                   !.result = Some(CalculateAllMetrics(Val(calc.features), calc.brand_domains))]
    /\ UNCHANGED <<pc, brands, serpapi_data, futures, gemini_reply, results, execution_data,
                   own_data, structured, route_log, session, db, next_id, response>>

NextMetrics == ComputeGemini \/ ComputeClaude \/ ComputeSerp

SpecMetrics == InitMetrics /\ [][NextMetrics]_vars

\* the metrics a computation returned
Computed == calc.result # None /\ Val(calc.result).ok

Metrics == Val(calc.result).val

(***************************************************************************)
(* C1: every score a collector computes (visibility_score,                 *)
(* intensity_score, share_of_voice_percentage) lies within 0..100, for     *)
(* every input.  share_of_voice_percentage is held in hundredths.          *)
(***************************************************************************)
ScoresInRange ==
    Computed =>
        /\ Metrics.visibility_score \in 0..100
        /\ Metrics.intensity_score \in 0..100
        /\ Metrics.share_of_voice_percentage \in 0..10000

\* a text-only computation over a domain_summary with a negative count
NegativeCountComputed ==
    /\ Computed
    /\ calc.collector = "gemini"
    /\ \E i \in 1..Len(Val(calc.parsed).domain_summary) :
          Val(calc.parsed).domain_summary[i].count < 0

(***************************************************************************)
(* C2: the metrics that become the snapshot record satisfy                 *)
(* brand_citations <= total_citations, whatever citation list and domain   *)
(* summary the provider returned.                                          *)
(***************************************************************************)
BrandCitationsWithinTotal ==
    Computed => Metrics.brand_citations <= Metrics.total_citations

\* a text-only computation whose domain summary counts more brand citations
\* than the citation list holds
SummaryExceedsCitations ==
    /\ Computed
    /\ calc.collector \in {"gemini", "claude"}
    /\ Val(calc.parsed).domain_summary # <<>>
    /\ Val(calc.parsed).citations = <<>>
    /\ calc.brand_domains # <<>>

(***************************************************************************)
(* Properties of the search-augmented run                                  *)
(***************************************************************************)
\* the step of run r in which _analyze_with_gemini_concurrent has returned and
\* _structure_for_storage runs
MergeStep(r) == pc[r] = "collect" /\ pc'[r] # "collect"

\* the step of run r in which save_complete_snapshot commits and returns
CommitStep(r) == pc[r] = "commit" /\ pc'[r] = "done" /\ Val(response'[r]).status = "success"

(***************************************************************************)
(* C3: the log_data emitted for a run reflects only that run's own stage   *)
(* outcomes: it equals the log built from the records the run itself wrote *)
(* to the tracker, whatever other runs did in between.                     *)
(***************************************************************************)
LogIsolatedPerRun ==
    [][\A r \in Runs :
          (MergeStep(r) /\ structured'[r] # None) =>
              Val(structured'[r]).log_data = GetLogData(own_data[r], QueryOf(r))]_vars

(***************************************************************************)
(* C4: when the search fetch of a run raises, the run is over with status  *)
(* error, none of its sub-tasks was submitted, nothing of it is handed to  *)
(* the save (no pending row, no row stored by that step), and the severity *)
(* the tracker determines from the recorded failure is CRITICAL.           *)
(***************************************************************************)
SearchFailed(r) == StatusOf(own_data[r], "serpapi") = "failed"

SentimentFailureTolerated ==
    [][\A r \in Runs :
          (/\ MergeStep(r)
           /\ results[r]["citation_sentiment"] = Some(None)
           /\ results[r]["intent"] \notin {None, Some(None)}) =>
              /\ structured'[r] # None
              /\ \A i \in 1..Len(Val(structured'[r]).citations_data) :
                    /\ Val(structured'[r]).citations_data[i].sentiment = "neutral"
                    /\ Val(structured'[r]).citations_data[i].ai_reusability_score = "Medium"]_vars

\* the citation-sentiment sub-task of a run has raised, its intent sub-task returned
SentimentTaskFailed ==
    \E r \in Runs :
        /\ results[r]["citation_sentiment"] = Some(None)
        /\ results[r]["intent"] \notin {None, Some(None)}

(***************************************************************************)
(* C6: when the provider call of the intent sub-task failed and the        *)
(* failure was absorbed into the fallback, the execution log stored with   *)
(* the run's snapshot does not show gemini_status success.                 *)
(***************************************************************************)
AbsorbedFailureVisible ==
    [][\A r \in Runs :
          (/\ CommitStep(r)
           /\ gemini_reply[r] # None
           /\ ~Val(gemini_reply[r]).ok) =>
              \A l \in db'.logs \ db.logs : l.data.gemini_status # "success"]_vars

(***************************************************************************)
(* C7: save_complete_snapshot is all-or-nothing.  No row of a run is in    *)
(* any table while its save is under way; when the save fails the tables   *)
(* are what they were and the caller gets the error; when it returns an id *)
(* the tables gained exactly the snapshot with that id, every citation and *)
(* every position it was given, and one execution log.                     *)
(***************************************************************************)
RowsOf(tables, id) ==
    [snapshots |-> {x \in tables.snapshots : x.id = id},
     citations |-> {x \in tables.citations : x.snapshot_id = id},
     positions |-> {x \in tables.positions : x.snapshot_id = id},
     logs |-> {x \in tables.logs : x.snapshot_id = id}]

GivenRows(r) ==
    [snapshots |-> {[id |-> SnapshotId(r), data |-> Val(structured[r]).snapshot_data]},
     citations |-> SeqRange(ChildRows(SnapshotId(r), Val(structured[r]).citations_data)),
     positions |-> SeqRange(ChildRows(SnapshotId(r), Val(structured[r]).positions_data)),
     logs |-> {[snapshot_id |-> SnapshotId(r), data |-> Val(route_log[r])]}]

SaveAllOrNothing ==
    /\ [](\A r \in Runs :
             (pc[r] \in SavePcs /\ session[r].snapshot # None) =>
                 RowsOf(db, SnapshotId(r)) = EmptyDb)
    /\ [][\A r \in Runs :
             (pc[r] \in SavePcs /\ pc'[r] # pc[r]) =>
                 /\ pc'[r] \in SavePcs => db' = db
                 /\ (pc'[r] = "done" /\ Val(response'[r]).status = "error") =>
                       /\ db' = db
                       /\ session'[r] = EmptySession
                       /\ Val(response'[r]).snapshot_id = None
                 /\ (pc'[r] = "done" /\ Val(response'[r]).status = "success") =>
                       /\ Val(response'[r]).snapshot_id = Some(SnapshotId(r))
                       /\ RowsOf(db', SnapshotId(r)) = GivenRows(r)
                       /\ Cardinality(RowsOf(db', SnapshotId(r)).logs) = 1
                       /\ Cardinality(RowsOf(db', SnapshotId(r)).citations)
                             = Len(Val(structured[r]).citations_data)
                       /\ Cardinality(RowsOf(db', SnapshotId(r)).positions)
                             = Len(Val(structured[r]).positions_data)
                       /\ \A k \in DOMAIN db : db[k] \subseteq db'[k]
                       /\ \A k \in DOMAIN db : db'[k] \ db[k] \subseteq GivenRows(r)[k]]_vars

\* one run's save failed and left nothing, another run's save stored its rows
SaveFailedAndSaveStored ==
    \E r \in Runs, o \in Runs :
        /\ response[r] = Some(ErrorResponse("SQLAlchemyError"))
        /\ response[o] # None
        /\ Val(response[o]).status = "success"
        /\ Cardinality(db.snapshots) = 1
        /\ db.citations # {}
        /\ db.positions # {}

(***************************************************************************)
(* C8: the execution log stored with a search-augmented snapshot carries   *)
(* the statuses, durations and severity of the log_data the collector      *)
(* emitted for the run.                                                    *)
(***************************************************************************)
LogFields ==
    {"serpapi_status", "gemini_status", "database_status", "serpapi_time_ms",
     "gemini_time_ms", "database_time_ms", "total_time_ms", "log_level"}

PersistedLogIsTrackerLog ==
    [][\A r \in Runs :
          CommitStep(r) =>
              \A l \in db'.logs \ db.logs :
                  \A f \in LogFields : l.data[f] = Val(structured[r]).log_data[f]]_vars

(***************************************************************************)
(* C9: the result map of _analyze_with_gemini_concurrent does not depend   *)
(* on the order in which the sub-tasks complete: each collected future     *)
(* writes the key of its own task and no other, and the map the merge      *)
(* reads holds, under each task's key, the value of that task's outcome.   *)
(***************************************************************************)
ResultsKeyedByTask ==
    /\ [](\A r \in Runs, t \in Tasks :
             results[r][t] # None =>
                 /\ futures[r][t].state = "finished"
                 /\ results[r][t] = Some(CollectedValue(Val(futures[r][t].outcome))))
    /\ [][\A r \in Runs :
             (pc[r] = "collect" /\ pc'[r] = "collect" /\ results'[r] # results[r]) =>
                 \E t \in Tasks :
                     /\ results[r][t] = None
                     /\ futures[r][t].state = "finished"
                     /\ results'[r] = [results[r] EXCEPT
                           ![t] = Some(CollectedValue(Val(futures[r][t].outcome)))]]_vars
    /\ [][\A r \in Runs :
             MergeStep(r) =>
                 results[r] =
                     [t \in Tasks |-> Some(CollectedValue(Val(futures[r][t].outcome)))]]_vars

\* the two sub-tasks were collected in one order in one run and in the
\* other order in another
CollectedInBothOrders ==
    \E r \in Runs, o \in Runs :
        /\ results[r]["citation_sentiment"] # None
        /\ results[r]["intent"] = None
        /\ results[o]["intent"] # None
        /\ results[o]["citation_sentiment"] = None

(***************************************************************************)
(* C10: the merge of a run starts only after every sub-task the run        *)
(* submitted has completed or failed and was collected; a sub-task is      *)
(* pending or running only while its run waits in the collecting loop.     *)
(***************************************************************************)
MergeAfterAllSubtasks ==
    /\ [](\A r \in Runs, t \in Tasks :
             futures[r][t].state \in {"pending", "running"} => pc[r] = "collect")
    /\ [][\A r \in Runs :
             MergeStep(r) =>
                 \A t \in Tasks : futures[r][t].state = "finished" /\ results[r][t] # None]_vars

\* one run has merged while a sub-task of another run is still running
MergedWhileOtherRunWorks ==
    \E r \in Runs, o \in Runs, t \in Tasks :
        /\ pc[r] = "save_snapshot"
        /\ structured[r] # None
        /\ futures[o][t].state = "running"

(***************************************************************************)
(* One search-augmented request on an otherwise idle server, in which the  *)
(* provider call of the intent sub-task may block for ever: generate_content*)
(* is called without a timeout, and neither as_completed nor               *)
(* future.result() is given one.  Threads that can take a step take it.    *)
(***************************************************************************)
InitOneRun ==
    /\ pc = [r \in Runs |-> IF r = 1 THEN "start" ELSE "idle"]
    /\ brands = [r \in Runs |-> <<>>]
    /\ serpapi_data = [r \in Runs |-> None]
    /\ futures = [r \in Runs |-> NoFutures]
    /\ gemini_reply = [r \in Runs |-> None]
    /\ results = [r \in Runs |-> NoResults]
    /\ execution_data = EmptyExecutionData
    /\ own_data = [r \in Runs |-> EmptyExecutionData]
    /\ structured = [r \in Runs |-> None]
    /\ route_log = [r \in Runs |-> None]
    /\ session = [r \in Runs |-> EmptySession]
    /\ db = EmptyDb
    /\ next_id = 1
    /\ response = [r \in Runs |-> None]
    /\ calc = NoCalc

\* the provider call inside _analyze_intent never returns: the function does
\* not reach its except clause and the wrapper does not reach its finally
IntentHangs(r) ==
    /\ futures[r]["intent"].state = "running"
    /\ futures' = [futures EXCEPT ![r]["intent"].state = "hung"]
    /\ UNCHANGED <<pc, brands, serpapi_data, gemini_reply, results, execution_data, own_data,
                   structured, route_log, session, db, next_id, response, calc>>

NextLive ==
    \/ Next
    \/ \E r \in Runs : IntentHangs(r)

Fairness ==
    /\ WF_vars(\E r \in Runs : FetchSerpapiData(r) \/ FetchSerpapiRaises(r))
    /\ WF_vars(\E r \in Runs : SubmitTasks(r))
    /\ WF_vars(\E r \in Runs, t \in Tasks : TaskStart(r, t))
    /\ WF_vars(\E r \in Runs : RunIntent(r) \/ IntentHangs(r))
    /\ WF_vars(\E r \in Runs : RunCitationSentiment(r))
    /\ WF_vars(\E r \in Runs, t \in Tasks : CollectResult(r, t))
    /\ WF_vars(\E r \in Runs : Merge(r))
    /\ WF_vars(\E r \in Runs : SaveSnapshot(r) \/ SaveCitations(r) \/ SavePositions(r)
                                \/ SaveLog(r) \/ Commit(r) \/ SaveFails(r))

SpecLive == InitOneRun /\ [][NextLive]_vars /\ Fairness

(***************************************************************************)
(* C11: when the generative-text sub-task of a run never returns, the run  *)
(* still eventually finishes, with the sub-task recorded as failed by the  *)
(* tracker.                                                                *)
(***************************************************************************)
HungSubtaskRunFinishes ==
    \A r \in Runs :
        (futures[r]["intent"].state = "hung") ~>
            (pc[r] = "done" /\ StatusOf(execution_data, "gemini") = "failed")

\* the intent sub-task is blocked while the other sub-task was collected
IntentHungOtherCollected ==
    \E r \in Runs :
        /\ futures[r]["intent"].state = "hung"
        /\ results[r]["citation_sentiment"] # None
        /\ pc[r] = "collect"

(***************************************************************************)
(* C12: when the feature extractor reports the AI overview as absent, the  *)
(* search-augmented run completes normally: the merge returns a record     *)
(* with has_ai_overview false, zero citations and no citation rows.        *)
(***************************************************************************)
AbsentOverviewCompletes ==
    [][\A r \in Runs :
          (MergeStep(r) /\ Val(serpapi_data[r]).ai_overview = None) =>
              /\ structured'[r] # None
              /\ Val(structured'[r]).snapshot_data.metrics.has_ai_overview = FALSE
              /\ Val(structured'[r]).snapshot_data.metrics.total_citations = 0
              /\ Val(structured'[r]).citations_data = <<>>]_vars

\* a run whose features hold no AI overview has collected both sub-tasks
AbsentOverviewAtMerge ==
    \E r \in Runs :
        /\ pc[r] = "collect"
        /\ AllCollected(r)
        /\ Val(serpapi_data[r]).ai_overview = None

(***************************************************************************)
(* Response parsers of the text-only collectors.  What the ask step hands  *)
(* to the parser is                                                        *)
(*   [type |-> "none"]                      None                           *)
(*   [type |-> "dict"]                      the standard response dict     *)
(*   [type |-> "str", form, obj]            a string: form "empty", "prose"*)
(*       (no {...}), "broken" ({...} that json.loads rejects) or "object"  *)
(*       ({...} that decodes to obj)                                       *)
(* A decoded object is a function from its keys to values; every value is  *)
(* a record with a kind ("dict", "list", "str", "none", "other").          *)
(***************************************************************************)
ParserKeys ==
    {"intent", "ai_overview", "citations", "domain_summary", "top_recommendation",
     "runner_ups"}

\* the object literal of the fallbacks and of the setdefault calls; the
\* Gemini fallbacks carry a seventh key, 'explanation'
FallbackObject(reasoning, explanation) ==
    LET six == [k \in ParserKeys |->
                  CASE k = "intent" -> [kind |-> "dict", type |-> "informational",
                                        confidence |-> <<1, 2>>, reasoning |-> reasoning]
                    [] k = "ai_overview" -> [kind |-> "dict", text |-> EmptyStr]
                    [] k = "top_recommendation" -> [kind |-> "none", domain |-> EmptyStr]
                    [] OTHER -> [kind |-> "list", items |-> <<>>]]
    IN  IF explanation = None THEN six
        ELSE six @@ ("explanation" :> [kind |-> "str", text |-> Val(explanation)])

\* data.setdefault(key, default) for the six keys
SetDefaults(data) ==
    [k \in DOMAIN data \cup ParserKeys |->
        IF k \in DOMAIN data THEN data[k] ELSE FallbackObject("", None)[k]]

\* re.search over a value that is not a string raises TypeError
ParseGeminiResponse(raw_text) ==
    IF raw_text.type # "str" THEN Raise("TypeError")
    ELSE IF raw_text.form \in {"empty", "prose"}
         THEN Ok(FallbackObject("fallback", Some("no-json")))
    ELSE IF raw_text.form = "broken"
         THEN Ok(FallbackObject("fallback", Some("parse-failed")))
    ELSE Ok(SetDefaults(raw_text.obj))

ParseClaudeResponse(raw_text) ==
    IF raw_text.type # "str" THEN Raise("TypeError")
    ELSE IF raw_text.form \in {"empty", "prose"} THEN Ok(FallbackObject("fallback", None))
    ELSE IF raw_text.form = "broken" THEN Ok(FallbackObject("parse-failed", None))
    ELSE Ok(SetDefaults(raw_text.obj))

(***************************************************************************)
(* Text-only run: collect_gemini_snapshot / collect_claude_snapshot.       *)
(* Run 1 is the request; calc holds the collector's locals:                *)
(*   collector    "gemini" | "claude"                                      *)
(*   credential   "missing" (client / api key never set), "bad", "good"    *)
(*   text         the text the model would answer with                     *)
(*   calls        provider calls issued so far by the ask step             *)
(*   auth_failed  history: a call of this operation failed on the          *)
(*                credential                                               *)
(*   raw          optional value the ask step returned                     *)
(***************************************************************************)
attempts == 2
MAX_RETRIES == 3

\* parsed.get(...) with the isinstance checks of the metrics function
MetricsInput(parsed) ==
    [ai_overview |-> IF parsed["ai_overview"].kind \in {"str", "dict"}
                     THEN parsed["ai_overview"]
                     ELSE [kind |-> "other", text |-> EmptyStr],
     citations |-> IF parsed["citations"].kind = "list"
                   THEN parsed["citations"].items ELSE <<>>,
     domain_summary |-> IF parsed["domain_summary"].kind = "list"
                        THEN parsed["domain_summary"].items ELSE <<>>,
     top_recommendation |-> IF parsed["top_recommendation"].kind \in {"str", "dict"}
                            THEN parsed["top_recommendation"]
                            ELSE [kind |-> "none", domain |-> EmptyStr]]

\* steps 3 to 5a of the collectors: metrics, _structure_for_storage and the
\* log_data literal.  citation.get on an entry that is not a dict raises
\* AttributeError, at the latest in the citations loop of the structuring.
StructureTextOnly(collector, query, parsed, brand_domains, elapsed_ms) ==
    LET input == MetricsInput(parsed)
        citations == input.citations
        metrics == IF collector = "gemini"
                   THEN CalculateMetricsFromGemini(input, brand_domains)
                   ELSE CalculateMetricsFromClaude(input, brand_domains)
        intent == IF parsed["intent"].kind = "dict" THEN parsed["intent"]
                  ELSE [type |-> "informational", confidence |-> <<1, 2>>]
        row(i) == LET url == citations[i].url
                      domain == IF url # EmptyStr THEN CitationDomain(url)
                                ELSE <<"u","n","k","n","o","w","n">>
                  IN  [domain |-> domain, url |-> url,
                       is_brand |-> AnyBrandIn(brand_domains, domain),
                       citation_index |-> i - 1]
    IN  IF \E i \in 1..Len(citations) : citations[i].kind # "dict"
        THEN Raise("AttributeError")
        ELSE Ok([snapshot_data |->
                    [query |-> query,
                     intent_type |-> intent.type,
                     intent_confidence |-> intent.confidence,
                     has_ai_overview |-> AiOverviewText(input) # EmptyStr,
                     metrics |-> metrics,
                     category |-> collector],
                 citations_data |-> [i \in 1..Len(citations) |-> row(i)],
                 positions_data |-> <<>>,
                 log_data |->
                    [query |-> query,
                     gemini_status |-> IF collector = "gemini" THEN "success" ELSE "skipped",
                     serpapi_status |-> "skipped",
                     database_status |-> "success",
                     total_time_ms |-> elapsed_ms,
                     log_level |-> "INFO"]])

\* the JSON text the ask step returns when the provider call failed
AskFallback(collector) ==
    [type |-> "str", form |-> "object",
     obj |-> IF collector = "gemini"
             THEN FallbackObject("fallback", Some("fallback due to Gemini failure"))
             ELSE FallbackObject("fallback", None)]

\* texts a model may answer with: prose, a truncated object, an object of
\* the requested schema, one with wrong field types, one whose citation
\* entries are strings, one with keys missing
ProviderTexts ==
    LET base == FallbackObject("", None)
        object(o) == [type |-> "str", form |-> "object", obj |-> o]
    IN  { [type |-> "str", form |-> "prose", obj |-> <<>>],
          [type |-> "str", form |-> "broken", obj |-> <<>>],
          object([base EXCEPT
                     !["intent"] = [kind |-> "dict", type |-> "transactional",
                                    confidence |-> <<9, 10>>, reasoning |-> ""],
                     !["ai_overview"] = [kind |-> "dict", text |-> TextAcme],
                     !["citations"] = [kind |-> "list",
                                       items |-> << [kind |-> "dict", url |-> UrlAcme] >>],
                     !["top_recommendation"] = [kind |-> "dict", domain |-> DomainAcme]]),
          object([base EXCEPT
                     !["intent"] = [kind |-> "str"],
                     !["ai_overview"] = [kind |-> "other"],
                     !["citations"] = [kind |-> "other"],
                     !["domain_summary"] = [kind |-> "other"]]),
          object([base EXCEPT
                     !["citations"] = [kind |-> "list",
                                       items |-> << [kind |-> "str", url |-> EmptyStr] >>]]),
          object([k \in {"ai_overview"} |-> [kind |-> "str", text |-> TextAcme]]) }

InitTextOnly ==
    /\ pc = [r \in Runs |-> IF r = 1 THEN "ask" ELSE "idle"]
    /\ \E b \in BrandLists : brands = [r \in Runs |-> IF r = 1 THEN b ELSE <<>>]
    /\ serpapi_data = [r \in Runs |-> None]
    /\ futures = [r \in Runs |-> NoFutures]
    /\ gemini_reply = [r \in Runs |-> None]
    /\ results = [r \in Runs |-> NoResults]
    /\ execution_data = EmptyExecutionData
    /\ own_data = [r \in Runs |-> EmptyExecutionData]
    /\ structured = [r \in Runs |-> None]
    /\ route_log = [r \in Runs |-> None]
    /\ session = [r \in Runs |-> EmptySession]
    /\ db = EmptyDb
    /\ next_id = 1
    /\ response = [r \in Runs |-> None]
    /\ \E c \in {"gemini", "claude"}, k \in {"missing", "bad", "good"}, t \in ProviderTexts :
          calc = [collector |-> c, credential |-> k, text |-> t, calls |-> 0,
                  auth_failed |-> FALSE, raw |-> None]

\* one pass of the retry loop of _ask_gemini_comprehensive_analysis:
\* generate_content raises ValueError without a client, the API rejects a bad
\* key, and with a good key the call fails or returns the response dict;
\* every exception is caught and the loop goes on; after the last pass the
\* fallback JSON text is returned
GeminiCall(r) ==
    /\ pc[r] = "ask"
    /\ calc.collector = "gemini"
    /\ calc.calls < attempts
    /\ \E returns \in (IF calc.credential = "good" THEN BOOLEAN ELSE {FALSE}) :
          IF returns
          THEN /\ calc' = [calc EXCEPT !.calls = @ + 1,
                              !.raw = Some([type |-> "dict", response |-> calc.text])]
               /\ pc' = [pc EXCEPT ![r] = "parse"]
          ELSE /\ calc' = [calc EXCEPT !.calls = @ + 1,
                              !.auth_failed = @ \/ calc.credential # "good",
                              !.raw = IF calc.calls + 1 = attempts
                                      THEN Some(AskFallback("gemini")) ELSE None]
               /\ pc' = [pc EXCEPT ![r] = IF calc.calls + 1 = attempts THEN "parse" ELSE "ask"]
    /\ UNCHANGED <<brands, serpapi_data, futures, gemini_reply, results, execution_data,
                   own_data, structured, route_log, session, db, next_id, response>>

\* ClaudeService.generate_content under _ask_claude_comprehensive_analysis:
\* without an api key it raises ValueError before any request; otherwise one
\* pass of its retry loop posts once: a 401/403 (bad key) or another request
\* error is a RequestException and the loop goes on; a 200 ends the call (by
\* the response dict, or by the exception its success path raises), the last
\* failed pass returns the error dict.  Neither dict has a 'text' key, so
\* result['text'] raises KeyError, and the collector answers every exception
\* with the fallback JSON text, as it does for the ValueError.
ClaudeCall(r) ==
    /\ pc[r] = "ask"
    /\ calc.collector = "claude"
    /\ calc.calls < MAX_RETRIES
    /\ IF calc.credential = "missing"
       THEN /\ calc' = [calc EXCEPT !.auth_failed = TRUE, !.raw = Some(AskFallback("claude"))]
            /\ pc' = [pc EXCEPT ![r] = "parse"]
       ELSE \E returns \in (IF calc.credential = "good" THEN BOOLEAN ELSE {FALSE}) :
               LET over == returns \/ calc.calls + 1 = MAX_RETRIES
               IN  /\ calc' = [calc EXCEPT !.calls = @ + 1,
                                  !.auth_failed = @ \/ calc.credential = "bad",
                                  !.raw = IF over THEN Some(AskFallback("claude")) ELSE None]
                   /\ pc' = [pc EXCEPT ![r] = IF over THEN "parse" ELSE "ask"]
    /\ UNCHANGED <<brands, serpapi_data, futures, gemini_reply, results, execution_data,
                   own_data, structured, route_log, session, db, next_id, response>>

\* steps 2 to 5a of the try block
ParseAndStructure(collector, raw, query, brand_domains, elapsed_ms) ==
    LET parsed == IF collector = "gemini" THEN ParseGeminiResponse(raw)
                  ELSE ParseClaudeResponse(raw)
    IN  IF parsed.ok
        THEN StructureTextOnly(collector, query, parsed.val, brand_domains, elapsed_ms)
        ELSE parsed

\* the try block hands its data to the save, or an exception reaches the
\* collector's except branch, which returns status error
Return(r, out) ==
    IF out.ok
    THEN /\ structured' = [structured EXCEPT ![r] = Some(out.val)]
         /\ route_log' = [route_log EXCEPT ![r] = Some(out.val.log_data)]
         /\ pc' = [pc EXCEPT ![r] = "save_snapshot"]
         /\ UNCHANGED response
    ELSE /\ response' = [response EXCEPT ![r] = Some(ErrorResponse(out.err))]
         /\ pc' = [pc EXCEPT ![r] = "done"]
         /\ UNCHANGED <<structured, route_log>>

Analyse(r) ==
    /\ pc[r] = "parse"
    /\ \E ms \in Durations :
          Return(r, ParseAndStructure(calc.collector, Val(calc.raw), QueryOf(r), brands[r], ms))
    /\ UNCHANGED <<brands, serpapi_data, futures, gemini_reply, results, execution_data,
                   own_data, session, db, next_id, calc>>

NextTextOnly ==
    \/ \E r \in Runs : GeminiCall(r)
    \/ \E r \in Runs : ClaudeCall(r)
    \/ \E r \in Runs : Analyse(r)
    \/ \E r \in Runs : SaveSnapshot(r)
    \/ \E r \in Runs : SaveCitations(r)
    \/ \E r \in Runs : SavePositions(r)
    \/ \E r \in Runs : SaveLog(r)
    \/ \E r \in Runs : Commit(r)
    \/ \E r \in Runs : SaveFails(r)

SpecTextOnly == InitTextOnly /\ [][NextTextOnly]_vars

(***************************************************************************)
(* C13: a text-only run answers with status error only when the            *)
(* persistence stage failed; a failed provider call or malformed provider  *)
(* output (prose, wrong field types, citation entries that are not         *)
(* objects) ends in status success with fallback metrics.                  *)
(***************************************************************************)
ErrorOnlyFromPersistence ==
    \A r \in Runs :
        (response[r] # None /\ Val(response[r]).status = "error") =>
            Val(response[r]).message = Some("SQLAlchemyError")

\* the Gemini call returned, the model had answered in prose, and the run is over
ProseAnswerRunOver ==
    /\ pc[1] = "done"
    /\ calc.collector = "gemini"
    /\ calc.raw # None
    /\ Val(calc.raw).type = "dict"
    /\ calc.text.form = "prose"

(***************************************************************************)
(* C15: a provider call that failed on the credential (401/403 from        *)
(* Claude, a Gemini client that was never initialized or whose key is      *)
(* rejected) is never retried: once such a failure has happened, the       *)
(* operation issues no further call to the provider.                       *)
(***************************************************************************)
NoCallAfterAuthFailure ==
    [][calc'.calls > calc.calls => ~calc.auth_failed]_vars

\* a first call has failed on the credential and the ask step is not over
AuthFailedOnce ==
    /\ pc[1] = "ask"
    /\ calc.calls = 1
    /\ calc.auth_failed

(***************************************************************************)
(* C17: when the intent sub-task fails (the provider call raises or its    *)
(* output cannot be parsed), the run is not aborted and the snapshot's     *)
(* intent is the fallback.  As stated, the fallback is intent_type         *)
(* informational with confidence 0.5 (IntentFailureGivesDefault); what     *)
(* holds is that the fallback is the keyword classification of the query:  *)
(* informational with confidence 0.5 when no keyword occurs, otherwise the *)
(* first category with the highest keyword count, with confidence          *)
(* count / total (IntentFailureGivesKeywordFallback).                      *)
(***************************************************************************)
IntentFailed(r) ==
    /\ gemini_reply[r] # None
    /\ \/ ~Val(gemini_reply[r]).ok
       \/ Val(gemini_reply[r]).val.type # "str"
       \/ Val(gemini_reply[r]).val.json = None

BrandMentionedExactly ==
    (Computed /\ calc.collector \in {"gemini", "claude"}) =>
        LET parsed == Val(calc.parsed)
            summary == EffectiveDomainSummary(parsed)
            text == IF parsed.ai_overview.kind = "other" THEN EmptyStr
                    ELSE parsed.ai_overview.text
            named(str) == \E b \in 1..Len(calc.brand_domains) :
                              Contains(Lower(calc.brand_domains[b]), Lower(str))
        IN  Metrics.brand_mentioned <=>
                \/ \E i \in 1..Len(summary) : named(summary[i].domain) /\ summary[i].count > 0
                \/ summary = <<>> /\ named(text)

\* the metrics were computed over a summary whose only brand entry counts 0
ZeroCountBrandEntry ==
    /\ Computed
    /\ calc.collector = "gemini"
    /\ calc.brand_domains = <<BrandAcme>>
    /\ Val(calc.parsed).domain_summary = << [domain |-> DomainAcme, count |-> 0] >>
    /\ Val(calc.parsed).ai_overview.text = EmptyStr

(***************************************************************************)
(* C19: in the text-generation path visibility_score =                     *)
(* min(100, 40*[brand mentioned and overview text non-empty]               *)
(*        + 30*[top-recommended domain matches a brand]                    *)
(*        + 20*[some citation URL matches a brand]                         *)
(*        + 10*[brand citation count > 0]);                                *)
(* with a brand named in the overview text, no citation and no domain      *)
(* summary: brand_mentioned, brand_citations = 0,                          *)
(* share_of_voice_percentage = 0 and visibility_score = 40.                *)
(***************************************************************************)
ScenarioB ==
    /\ calc.parsed # None
    /\ calc.brand_domains = <<BrandAcme>>
    /\ Val(calc.parsed).ai_overview = [kind |-> "dict", text |-> TextAcme]
    /\ Val(calc.parsed).citations = <<>>
    /\ Val(calc.parsed).domain_summary = <<>>
    /\ Val(calc.parsed).top_recommendation.kind = "none"

VisibilityScoreText ==
    (Computed /\ calc.collector \in {"gemini", "claude"}) =>
        LET parsed == Val(calc.parsed)
            text == IF parsed.ai_overview.kind = "other" THEN EmptyStr
                    ELSE parsed.ai_overview.text
            named(str) == \E b \in 1..Len(calc.brand_domains) :
                              Contains(Lower(calc.brand_domains[b]), Lower(str))
            points == (IF Metrics.brand_mentioned /\ text # EmptyStr THEN 40 ELSE 0)
                    + (IF parsed.top_recommendation.kind # "none"
                          /\ named(parsed.top_recommendation.domain) THEN 30 ELSE 0)
                    + (IF \E i \in 1..Len(parsed.citations) : named(parsed.citations[i].url)
                       THEN 20 ELSE 0)
                    + (IF Metrics.brand_citations > 0 THEN 10 ELSE 0)
        IN  /\ Metrics.visibility_score = (IF points > 100 THEN 100 ELSE points)
            /\ ScenarioB =>
                  /\ Metrics.brand_mentioned
                  /\ Metrics.brand_citations = 0
                  /\ Metrics.share_of_voice_percentage = 0
                  /\ Metrics.visibility_score = 40

\* the Gemini-only metrics were computed for scenario B
ScenarioBComputed == Computed /\ calc.collector = "gemini" /\ ScenarioB

RawInputs ==
    { [type |-> "none"], [type |-> "dict"] }
    \cup { [type |-> "str", form |-> f, obj |-> <<>>] : f \in {"empty", "prose", "broken"} }
    \cup { [type |-> "str", form |-> "object",
            obj |-> [k \in K |-> FallbackObject("given", None)[k]]] : K \in SUBSET ParserKeys }

\* the statuses log_service_call documents, per service, or no record
TrackerContents ==
    [ {"serpapi", "gemini", "database"} ->
         {None} \cup { Some([status |-> st, time_ms |-> 1, error |-> None]) :
                          st \in {"success", "failed", "timeout"} } ]

InitPure ==
    /\ pc = [r \in Runs |-> "idle"]
    /\ brands = [r \in Runs |-> <<>>]
    /\ serpapi_data = [r \in Runs |-> None]
    /\ futures = [r \in Runs |-> NoFutures]
    /\ gemini_reply = [r \in Runs |-> None]
    /\ results = [r \in Runs |-> NoResults]
    /\ execution_data \in TrackerContents
    /\ own_data = [r \in Runs |-> EmptyExecutionData]
    /\ structured = [r \in Runs |-> None]
    /\ route_log = [r \in Runs |-> None]
    /\ session = [r \in Runs |-> EmptySession]
    /\ db = EmptyDb
    /\ next_id = 1
    /\ response = [r \in Runs |-> None]
    /\ \E raw \in RawInputs : calc = [fn |-> "none", raw |-> raw, result |-> None]

\* parsed = self._parse_gemini_response(raw)
ParseGemini ==
    /\ calc.fn = "none"
    /\ calc' = [calc EXCEPT !.fn = "parse_gemini",
                   !.result = Some(ParseGeminiResponse(calc.raw))]
    /\ UNCHANGED <<pc, brands, serpapi_data, futures, gemini_reply, results, execution_data,
                   own_data, structured, route_log, session, db, next_id, response>>

\* parsed = self._parse_claude_response(raw)
ParseClaude ==
    /\ calc.fn = "none"
    /\ calc' = [calc EXCEPT !.fn = "parse_claude",
                   !.result = Some(ParseClaudeResponse(calc.raw))]
    /\ UNCHANGED <<pc, brands, serpapi_data, futures, gemini_reply, results, execution_data,
                   own_data, structured, route_log, session, db, next_id, response>>

\* 'log_level': self._determine_log_level(summary)
ComputeLogLevel ==
    /\ calc.fn = "none"
    /\ calc' = [calc EXCEPT !.fn = "log_level",
                   !.result = Some(DetermineLogLevel(execution_data))]
    /\ UNCHANGED <<pc, brands, serpapi_data, futures, gemini_reply, results, execution_data,
                   own_data, structured, route_log, session, db, next_id, response>>

NextPure == ParseGemini \/ ParseClaude \/ ComputeLogLevel

SpecPure == InitPure /\ [][NextPure]_vars

(***************************************************************************)
(* C14: a response parser never raises, and what it returns has exactly    *)
(* the six top-level keys intent, ai_overview, citations, domain_summary,  *)
(* top_recommendation, runner_ups, for text that is not JSON, for an       *)
(* object with keys missing, and for null or empty input alike.            *)
(***************************************************************************)
ParserReturnsFixedShape ==
    calc.fn \in {"parse_gemini", "parse_claude"} =>
        /\ Val(calc.result).ok
        /\ DOMAIN Val(calc.result).val = ParserKeys

\* the Gemini parser was applied to text that holds no JSON object
ProseParsed ==
    /\ calc.fn = "parse_gemini"
    /\ calc.raw.type = "str"
    /\ calc.raw.form = "prose"
    /\ Val(calc.result).ok

(***************************************************************************)
(* C16: the log level computed from the per-stage statuses is CRITICAL     *)
(* when the search stage (serpapi) failed, ERROR when another stage failed *)
(* and the search stage did not, WARNING when no stage failed but one      *)
(* timed out, INFO otherwise.                                              *)
(***************************************************************************)
LogLevelBySeverity ==
    calc.fn = "log_level" =>
        LET is(svc, st) == execution_data[svc] # None /\ Val(execution_data[svc]).status = st
            some(st) == \E svc \in {"serpapi", "gemini", "database"} : is(svc, st)
        IN  Val(calc.result) =
                IF is("serpapi", "failed") THEN "CRITICAL"
                ELSE IF some("failed") THEN "ERROR"
                ELSE IF some("timeout") THEN "WARNING"
                ELSE "INFO"

\* the rule was applied where one stage timed out and a later one failed
LevelOfTimeoutAndFailure ==
    /\ calc.fn = "log_level"
    /\ StatusOf(execution_data, "serpapi") = "success"
    /\ StatusOf(execution_data, "gemini") = "timeout"
    /\ StatusOf(execution_data, "database") = "failed"
    /\ Val(calc.result) = "ERROR"

(***************************************************************************)
(* The search-feature functions applied to one payload: the detection of   *)
(* detect_and_extract_features, the position rows and the metrics computed *)
(* from the features it returns.                                           *)
(***************************************************************************)
MaxOrganic == 12

\* payloads of the search provider: up to MaxOrganic organic results, some
\* of them without a link, with or without a fetched overview and each of
\* the four other features
SearchPayloads ==
    LET entry(i, gaps) ==
            [link |-> IF i \in gaps THEN None
                      ELSE Some(IF i % 2 = 1 THEN UrlAcme ELSE UrlOther)]
        organic_lists ==
            { [i \in 1..n |-> entry(i, gaps)] :
                n \in 0..MaxOrganic, gaps \in SUBSET {1, 2, 10, 11} }
    IN  {[BasePayload EXCEPT !.ai_overview = a, !.knowledge_graph = kg, !.answer_box = ab,
                             !.featured_snippet = fs, !.related_questions = rq,
                             !.references = IF a = "token" THEN <<RefAcme, RefOther>> ELSE <<>>,
                             !.organic_results = org] :
            a \in {"absent", "token"}, kg \in BOOLEAN, ab \in BOOLEAN, fs \in BOOLEAN,
            rq \in BOOLEAN, org \in organic_lists}

InitSearch ==
    /\ pc = [r \in Runs |-> "idle"]
    /\ brands = [r \in Runs |-> <<>>]
    /\ serpapi_data = [r \in Runs |-> None]
    /\ futures = [r \in Runs |-> NoFutures]
    /\ gemini_reply = [r \in Runs |-> None]
    /\ results = [r \in Runs |-> NoResults]
    /\ execution_data = EmptyExecutionData
    /\ own_data = [r \in Runs |-> EmptyExecutionData]
    /\ structured = [r \in Runs |-> None]
    /\ route_log = [r \in Runs |-> None]
    /\ session = [r \in Runs |-> EmptySession]
    /\ db = EmptyDb
    /\ next_id = 1
    /\ response = [r \in Runs |-> None]
    /\ \E data \in SearchPayloads, b \in BrandLists :
          calc = [fn |-> "none", data |-> data, brand_domains |-> b, result |-> None]

\* features = self.serpapi.detect_and_extract_features(raw_data)
DetectFeatures ==
    /\ calc.fn = "none"
    /\ calc' = [calc EXCEPT !.fn = "detect",
                   !.result = Some(DetectAndExtractFeatures(calc.data))]
    /\ UNCHANGED <<pc, brands, serpapi_data, futures, gemini_reply, results, execution_data,
                   own_data, structured, route_log, session, db, next_id, response>>

\* positions = self._prepare_positions_data(features, brand_domains)
PreparePositions ==
    /\ calc.fn = "none"
    /\ calc' = [calc EXCEPT !.fn = "positions",
                   !.result = Some(PreparePositionsData(DetectAndExtractFeatures(calc.data),
                                                        calc.brand_domains))]
    /\ UNCHANGED <<pc, brands, serpapi_data, futures, gemini_reply, results, execution_data,
                   own_data, structured, route_log, session, db, next_id, response>>

\* metrics = self._calculate_all_metrics(features, brand_domains)
SerpMetrics ==
    /\ calc.fn = "none"
    /\ calc' = [calc EXCEPT !.fn = "metrics",
                   !.result = Some(CalculateAllMetrics(DetectAndExtractFeatures(calc.data),
                                                       calc.brand_domains))]
    /\ UNCHANGED <<pc, brands, serpapi_data, futures, gemini_reply, results, execution_data,
                   own_data, structured, route_log, session, db, next_id, response>>

NextSearch == DetectFeatures \/ PreparePositions \/ SerpMetrics

SpecSearch == InitSearch /\ [][NextSearch]_vars

(***************************************************************************)
(* C21: detect_and_extract_features returns a detection vector of exactly  *)
(* 4 elements, each 0 or 1, in the order knowledge_graph, answer_box,      *)
(* ai_overview, organic_results; an element is 1 exactly when the feature  *)
(* extracted for it is present, and a payload that holds only a non-empty  *)
(* organic-results array gives <<0, 0, 0, 1>>.                             *)
(***************************************************************************)
OnlyOrganic(data) ==
    /\ ~data.knowledge_graph /\ ~data.answer_box /\ ~data.featured_snippet
    /\ ~data.related_questions /\ data.ai_overview = "absent"
    /\ data.organic_results # <<>>

DetectionVectorContract ==
    calc.fn = "detect" =>
        LET features == Val(calc.result)
            detection == features.detection
        IN  /\ Len(detection) = 4
            /\ \A i \in 1..4 : detection[i] \in {0, 1}
            /\ detection[1] = 1 <=> features.knowledge_graph
            /\ detection[2] = 1 <=> features.answer_box # None
            /\ detection[3] = 1 <=> features.ai_overview # None
            /\ detection[4] = 1 <=> features.organic_results # <<>>
            /\ OnlyOrganic(calc.data) => detection = <<0, 0, 0, 1>>

\* the detection was computed for a payload holding only organic results
OnlyOrganicDetected ==
    /\ calc.fn = "detect"
    /\ OnlyOrganic(calc.data)
    /\ Val(calc.result).detection = <<0, 0, 0, 1>>

(***************************************************************************)
(* C22: the position rows of a snapshot have pairwise distinct ranks, the  *)
(* ranks increase strictly in the order the provider returned the results, *)
(* every rank is between 1 and 10 and is the place of the row's result in  *)
(* the provider's list, so no result beyond the 10th is retained.          *)
(***************************************************************************)
PositionRanksContract ==
    calc.fn = "positions" =>
        LET rows == Val(calc.result)
            organic == calc.data.organic_results
        IN  /\ \A i, j \in 1..Len(rows) : i < j => rows[i].position < rows[j].position
            /\ \A i \in 1..Len(rows) :
                  /\ rows[i].position \in 1..10
                  /\ rows[i].position <= Len(organic)
                  /\ organic[rows[i].position].link = Some(rows[i].url)

\* rows were made from more than ten results, one of the first ten without a
\* link, and the row of the tenth result was emitted
RowsOfLongListWithGap ==
    /\ calc.fn = "positions"
    /\ Len(calc.data.organic_results) > 10
    /\ calc.data.organic_results[2].link = None
    /\ Len(Val(calc.result)) = 9
    /\ Val(calc.result)[9].position = 10

(***************************************************************************)
(* C23: in a search-augmented run the search fetch has been executed and   *)
(* has returned before a sub-task of the run is submitted to the worker    *)
(* pool: a sub-task of a run exists only once the run holds the features   *)
(* the fetch returned and the tracker record of the finished fetch, and    *)
(* the run's request thread is past the fetch.                             *)
(***************************************************************************)
FetchBeforeFanOut ==
    \A r \in Runs : \A t \in Tasks :
        futures[r][t].state # "none" =>
            /\ serpapi_data[r] # None
            /\ StatusOf(own_data[r], "serpapi") = "success"
            /\ pc[r] = "collect"

\* a sub-task is running on a worker, its run's fetch has returned
SubtaskRunningAfterFetch ==
    \E r \in Runs : \E t \in Tasks :
        /\ futures[r][t].state = "running"
        /\ serpapi_data[r] # None

(***************************************************************************)
(* C25: when the Gemini call succeeds, the model's text is a well-formed   *)
(* JSON object of the expected schema and persistence succeeds, the        *)
(* text-only run returns status success with a snapshot id: the value the  *)
(* Gemini service returns is usable by the parser as text.                 *)
(***************************************************************************)
WellFormedAnswer ==
    /\ calc.collector = "gemini"
    /\ calc.raw # None
    /\ Val(calc.raw).type = "dict"
    /\ calc.text.form = "object"
    /\ DOMAIN calc.text.obj = ParserKeys
    /\ calc.text.obj["intent"].kind = "dict"
    /\ calc.text.obj["ai_overview"].kind = "dict"
    /\ calc.text.obj["citations"].kind = "list"
    /\ \A i \in 1..Len(calc.text.obj["citations"].items) :
          calc.text.obj["citations"].items[i].kind = "dict"

WellFormedAnswerGivesSuccess ==
    (/\ WellFormedAnswer
     /\ pc[1] = "done"
     /\ Val(response[1]).message # Some("SQLAlchemyError")) =>
        /\ Val(response[1]).status = "success"
        /\ Val(response[1]).snapshot_id # None

\* the Gemini call returned a well-formed answer and the run is over
WellFormedAnswerRunOver ==
    /\ WellFormedAnswer
    /\ calc.text.obj["citations"].items # <<>>
    /\ pc[1] = "done"

(***************************************************************************)
(* The provider services as objects: SerpApiService, GeminiService and     *)
(* ClaudeService with the cache it reads and writes.  One caller uses them *)
(* one call at a time; the clock is time.time() in seconds.  calc holds    *)
(*   serpapi_key    api_key of the SerpApiService (optional string)        *)
(*   gemini_client  whether GeminiService.client is set                    *)
(*   claude_key     whether ClaudeService.api_key is set                   *)
(*   cache          CacheManager._cache: key -> [response, timestamp]      *)
(*   clock          the time                                               *)
(*   call           the call in progress or the last one finished: its     *)
(*                  operation and arguments, whether the service was       *)
(*                  initialized when it began, the replies of the          *)
(*                  outbound requests it issued, its optional outcome      *)
(***************************************************************************)
CACHE_TTL_SECONDS == 3600
MaxTicks == 3

KeyText == <<"k","e","y">>

ClaudeModels == {"none", "haiku"}

\* the methods CostTracker defines
CostTrackerMethods == {"_estimate_tokens", "record_api_call", "get_stats", "get_savings_from_cache"}

NoCall ==
    [op |-> "none", model |-> "none", use_cache |-> FALSE, initialized |-> FALSE,
     replies |-> <<>>, outcome |-> None]

InitServices ==
    /\ pc = [r \in Runs |-> "idle"]
    /\ brands = [r \in Runs |-> <<>>]
    /\ serpapi_data = [r \in Runs |-> None]
    /\ futures = [r \in Runs |-> NoFutures]
    /\ gemini_reply = [r \in Runs |-> None]
    /\ results = [r \in Runs |-> NoResults]
    /\ execution_data = EmptyExecutionData
    /\ own_data = [r \in Runs |-> EmptyExecutionData]
    /\ structured = [r \in Runs |-> None]
    /\ route_log = [r \in Runs |-> None]
    /\ session = [r \in Runs |-> EmptySession]
    /\ db = EmptyDb
    /\ next_id = 1
    /\ response = [r \in Runs |-> None]
    /\ calc = [serpapi_key |-> None, gemini_client |-> FALSE, claude_key |-> FALSE,
               cache |-> <<>>, clock |-> 0, call |-> NoCall]

ServiceFrame ==
    UNCHANGED <<brands, serpapi_data, futures, gemini_reply, results, execution_data,
                own_data, structured, route_log, session, db, next_id, response>>

\* SerpApiService.initialize(api_key, endpoint): any string is stored
InitializeSerpApi ==
    /\ pc[1] = "idle"
    /\ \E key \in {EmptyStr, KeyText} : calc' = [calc EXCEPT !.serpapi_key = Some(key)]
    /\ UNCHANGED pc
    /\ ServiceFrame

\* GeminiService.initialize(api_key): the client is built
InitializeGemini ==
    /\ pc[1] = "idle"
    /\ calc' = [calc EXCEPT !.gemini_client = TRUE]
    /\ UNCHANGED pc
    /\ ServiceFrame

\* ClaudeService.initialize(api_key) with a key
InitializeClaude ==
    /\ pc[1] = "idle"
    /\ calc' = [calc EXCEPT !.claude_key = TRUE]
    /\ UNCHANGED pc
    /\ ServiceFrame

\* time passes between two calls
Tick ==
    /\ pc[1] = "idle"
    /\ calc.clock < MaxTicks * (CACHE_TTL_SECONDS \div 2)
    /\ calc' = [calc EXCEPT !.clock = @ + (CACHE_TTL_SECONDS \div 2)]
    /\ UNCHANGED pc
    /\ ServiceFrame

\* a faulty variant of the fetch: the request is issued before the key is
\* looked at
FetchGoogleSearchSendsFirst(api_key, reply) ==
    [replies |-> <<reply>>,
     outcome |-> IF api_key = None \/ api_key = Some(EmptyStr) THEN Raise("RuntimeError")
                 ELSE IF reply = "request_error" THEN Raise("RequestException")
                 ELSE Ok("json")]

\* fetch_google_search: `not self.api_key` raises before requests.get
FetchGoogleSearch(api_key, reply) ==
    IF api_key = None \/ api_key = Some(EmptyStr)
    THEN [replies |-> <<>>, outcome |-> Raise("RuntimeError")]
    ELSE [replies |-> <<reply>>,
          outcome |-> IF reply = "request_error" THEN Raise("RequestException")
                      ELSE Ok("json")]

\* list_models and generate_content of GeminiService: `not self.client`
\* raises before the client is used; an error of the client propagates
GeminiRequest(client, reply) ==
    IF ~client
    THEN [replies |-> <<>>, outcome |-> Raise("ValueError")]
    ELSE [replies |-> <<reply>>,
          outcome |-> IF reply = "request_error" THEN Raise("APIError") ELSE Ok("dict")]

\* one call of a search or Gemini operation, start to end
CallSerpApiOrGemini ==
    /\ pc[1] = "idle"
    /\ \E op \in {"fetch_google_search", "list_models", "generate_content"},
          reply \in {"content", "request_error"} :
          LET initialized == IF op = "fetch_google_search"
                             THEN calc.serpapi_key # None /\ calc.serpapi_key # Some(EmptyStr)
                             ELSE calc.gemini_client
              done == IF op = "fetch_google_search"
                      THEN FetchGoogleSearch(calc.serpapi_key, reply)
                      ELSE GeminiRequest(calc.gemini_client, reply)
          IN  calc' = [calc EXCEPT !.call =
                          [NoCall EXCEPT !.op = op, !.initialized = initialized,
                                         !.replies = done.replies,
                                         !.outcome = Some(done.outcome)]]
    /\ UNCHANGED pc
    /\ ServiceFrame

\* CacheManager.get: the response stored under the key while it is younger
\* than the TTL
CacheGet(cache, key, now) ==
    IF key \in DOMAIN cache /\ now - cache[key].timestamp < CACHE_TTL_SECONDS
    THEN Some(cache[key].response)
    ELSE None

\* CacheManager.get deletes an entry it finds expired
CacheAfterGet(cache, key, now) ==
    IF key \in DOMAIN cache /\ ~(now - cache[key].timestamp < CACHE_TTL_SECONDS)
    THEN [k \in DOMAIN cache \ {key} |-> cache[k]]
    ELSE cache

\* CacheManager.set
CacheSet(cache, key, value, now) ==
    [k \in DOMAIN cache \cup {key} |->
        IF k = key THEN [response |-> value, timestamp |-> now] ELSE cache[k]]

\* ClaudeService.generate_content up to its retry loop: the key check, then
\* the cache lookup, which returns the cached response marked cached
ClaudeBegin ==
    /\ pc[1] = "idle"
    /\ \E model \in ClaudeModels, use_cache \in BOOLEAN :
          LET call == [NoCall EXCEPT !.op = "claude", !.model = model,
                                     !.use_cache = use_cache,
                                     !.initialized = calc.claude_key]
              key == <<"claude", model>>
              cached == IF use_cache THEN CacheGet(calc.cache, key, calc.clock) ELSE None
              cache == IF use_cache THEN CacheAfterGet(calc.cache, key, calc.clock)
                       ELSE calc.cache
          IN  IF ~calc.claude_key
              THEN /\ calc' = [calc EXCEPT !.call =
                                  [call EXCEPT !.outcome = Some(Raise("ValueError"))]]
                   /\ UNCHANGED pc
              ELSE IF cached # None
              THEN /\ calc' = [calc EXCEPT
                                  !.cache = CacheSet(cache, key,
                                                     [Val(cached) EXCEPT !.cached = TRUE],
                                                     cache[key].timestamp),
                                  !.call = [call EXCEPT !.outcome =
                                               Some(Ok([Val(cached) EXCEPT !.cached = TRUE]))]]
                   /\ UNCHANGED pc
              ELSE /\ calc' = [calc EXCEPT !.cache = cache, !.call = call]
                   /\ pc' = [pc EXCEPT ![1] = "claude_post"]
    /\ ServiceFrame

\* the success path after a 200 with content: cost is assigned only by
\* cost_tracker._calculate_claude_cost inside a try block whose exceptions
\* are swallowed, and is read when the response is formatted
ClaudeSuccessPath(methods) ==
    LET cost == IF "_calculate_claude_cost" \in methods THEN Some(0) ELSE None
    IN  IF cost = None THEN Raise("UnboundLocalError")
        ELSE Ok([status |-> "success", cached |-> FALSE])

\* a faulty variant of the end of a failed attempt: the last request error
\* is raised to the caller
AfterRequestErrorRaises(attempt) ==
    IF attempt < MAX_RETRIES - 1 THEN None
    ELSE Some(Raise("RequestException"))

\* the except branch of the retry loop: another attempt, or after the last
\* one the response with status error
AfterRequestError(attempt) ==
    IF attempt < MAX_RETRIES - 1 THEN None
    ELSE Some(Ok([status |-> "error", cached |-> FALSE]))

\* one pass of the retry loop: requests.post and what follows its reply
ClaudePost ==
    /\ pc[1] = "claude_post"
    /\ \E reply \in {"content", "no_content", "request_error"} :
          LET attempt == Len(calc.call.replies)
              outcome == IF reply = "content" THEN Some(ClaudeSuccessPath(CostTrackerMethods))
                         ELSE IF reply = "no_content" THEN Some(Raise("ValueError"))
                         ELSE AfterRequestError(attempt)
              stored == /\ reply = "content"
                        /\ Val(outcome).ok
                        /\ calc.call.use_cache
          IN  /\ calc' = [calc EXCEPT
                             !.call.replies = Append(@, reply),
                             !.call.outcome = outcome,
                             !.cache = IF stored
                                       THEN CacheSet(@, <<"claude", calc.call.model>>,
                                                     Val(outcome).val, calc.clock)
                                       ELSE @]
              /\ pc' = [pc EXCEPT ![1] = IF outcome = None THEN "claude_post" ELSE "idle"]
    /\ ServiceFrame

NextServices ==
    \/ InitializeSerpApi
    \/ InitializeGemini
    \/ InitializeClaude
    \/ Tick
    \/ CallSerpApiOrGemini
    \/ ClaudeBegin
    \/ ClaudePost

SpecServices == InitServices /\ [][NextServices]_vars

(***************************************************************************)
(* C24: a provider service that has not been initialized rejects every     *)
(* use: fetch_google_search raises RuntimeError, list_models and           *)
(* generate_content of the Gemini service raise ValueError, each without   *)
(* issuing an outbound request; once the service is initialized the same   *)
(* call issues its request.                                                *)
(***************************************************************************)
UninitializedServiceRejects ==
    calc.call.op \in {"fetch_google_search", "list_models", "generate_content"} =>
        IF calc.call.initialized
        THEN Len(calc.call.replies) = 1
        ELSE /\ calc.call.replies = <<>>
             /\ calc.call.outcome =
                   Some(Raise(IF calc.call.op = "fetch_google_search"
                              THEN "RuntimeError" ELSE "ValueError"))

\* the search service was asked to fetch while it held no usable key
FetchWithoutKey ==
    /\ calc.call.op = "fetch_google_search"
    /\ ~calc.call.initialized
    /\ calc.call.outcome = Some(Raise("RuntimeError"))

(***************************************************************************)
(* C27: a call of ClaudeService.generate_content on an initialized service *)
(* issues at most MAX_RETRIES HTTP requests, none after one that           *)
(* succeeded, and when every request failed with a request error it        *)
(* returns a response with status error instead of raising.                *)
(***************************************************************************)
ClaudeRetriesBounded ==
    calc.call.op = "claude" /\ calc.call.initialized =>
        LET replies == calc.call.replies
        IN  /\ Len(replies) <= MAX_RETRIES
            /\ \A i \in 1..(Len(replies) - 1) : replies[i] = "request_error"
            /\ (calc.call.outcome = None) = (pc[1] = "claude_post")
            /\ (/\ Len(replies) = MAX_RETRIES
                /\ \A i \in 1..Len(replies) : replies[i] = "request_error") =>
                  /\ calc.call.outcome # None
                  /\ Val(calc.call.outcome).ok
                  /\ Val(calc.call.outcome).val.status = "error"

\* every request of a call failed and the call is over
ClaudeGaveUp ==
    /\ calc.call.op = "claude"
    /\ Len(calc.call.replies) = MAX_RETRIES
    /\ \A i \in 1..MAX_RETRIES : calc.call.replies[i] = "request_error"
    /\ pc[1] = "idle"

(***************************************************************************)
(* C26: after generate_content of the Claude service completes an API call *)
(* successfully with use_cache=True, the formatted response is returned to *)
(* the caller and stored in the cache, so that a second call with the same *)
(* prompt and model within the TTL returns it, marked cached, without      *)
(* another HTTP request.                                                   *)
(***************************************************************************)
ClaudeAnsweredWithCache ==
    /\ calc.call.op = "claude"
    /\ calc.call.use_cache
    /\ calc.call.replies # <<>>
    /\ calc.call.replies[Len(calc.call.replies)] = "content"

SuccessIsReturnedAndCached ==
    ClaudeAnsweredWithCache =>
        /\ calc.call.outcome # None
        /\ Val(calc.call.outcome).ok
        /\ Val(calc.call.outcome).val.status = "success"
        /\ CacheGet(calc.cache, <<"claude", calc.call.model>>, calc.clock)
              = Some(Val(calc.call.outcome).val)

\* the API answered a call made with use_cache=True on its second attempt
ClaudeAnsweredOnRetry ==
    /\ ClaudeAnsweredWithCache
    /\ Len(calc.call.replies) = 2

(***************************************************************************)
(* C30: for every search-augmented run the snapshot's total_citations is   *)
(* the number of citation records emitted with it and its                  *)
(* total_organic_results is the number of position records emitted with    *)
(* it.                                                                     *)
(***************************************************************************)
CountsAgreeWithRows ==
    \A r \in Runs :
        structured[r] # None =>
            LET data == Val(structured[r])
            IN  /\ data.snapshot_data.metrics.total_citations = Len(data.citations_data)
                /\ data.snapshot_data.metrics.total_organic_results = Len(data.positions_data)

\* a run structured a snapshot whose overview cites two sources without a
\* url: no citation record is emitted
SnapshotOfSourcesWithoutUrl ==
    \E r \in Runs :
        /\ structured[r] # None
        /\ Val(structured[r]).citations_data = <<>>
        /\ Val(structured[r]).snapshot_data.metrics.total_citations = 2

(***************************************************************************)
(* C29: in a search-augmented snapshot each of the five feature flags is   *)
(* true exactly when the search payload contains that feature; in          *)
(* particular has_featured_snippet and has_related_questions are true      *)
(* whenever the payload carries a featured snippet or related questions.   *)
(***************************************************************************)
FlagsMatchPayload ==
    (calc.fn = "metrics" /\ Val(calc.result).ok) =>
        LET metrics == Val(calc.result).val
            data == calc.data
        IN  /\ metrics.has_knowledge_graph = data.knowledge_graph
            /\ metrics.has_answer_box = data.answer_box
            /\ metrics.has_ai_overview = (data.ai_overview # "absent")
            /\ metrics.has_featured_snippet = data.featured_snippet
            /\ metrics.has_related_questions = data.related_questions

\* metrics were computed for a payload that carries a featured snippet and
\* related questions but no answer box
MetricsOfFeaturedSnippet ==
    /\ calc.fn = "metrics"
    /\ Val(calc.result).ok
    /\ calc.data.featured_snippet
    /\ calc.data.related_questions
    /\ ~calc.data.answer_box

(***************************************************************************)
(* The rate limiter under the callers of ClaudeService.generate_content:   *)
(* each caller passes wait_if_needed, then posts up to MAX_RETRIES times,  *)
(* and records the call once a post is answered with content.  The steps   *)
(* of the callers interleave.  calc holds                                  *)
(*   clock    time.time() in seconds                                       *)
(*   calls    RateLimiter._calls['claude'], the recorded timestamps        *)
(*   started  the number of posts started at the present time: the clock   *)
(*            advances by more than the window, so a window holds the      *)
(*            posts of one clock value                                     *)
(*   attempt  [caller -> passes of its retry loop so far]                  *)
(***************************************************************************)
RATE_LIMIT_CALLS_PER_MINUTE == 60
WINDOW_SECONDS == 60
MaxMinutes == 1
MaxCalls == 61

InitRate ==
    /\ pc = [r \in Runs |-> "idle"]
    /\ brands = [r \in Runs |-> <<>>]
    /\ serpapi_data = [r \in Runs |-> None]
    /\ futures = [r \in Runs |-> NoFutures]
    /\ gemini_reply = [r \in Runs |-> None]
    /\ results = [r \in Runs |-> NoResults]
    /\ execution_data = EmptyExecutionData
    /\ own_data = [r \in Runs |-> EmptyExecutionData]
    /\ structured = [r \in Runs |-> None]
    /\ route_log = [r \in Runs |-> None]
    /\ session = [r \in Runs |-> EmptySession]
    /\ db = EmptyDb
    /\ next_id = 1
    /\ response = [r \in Runs |-> None]
    /\ calc = [clock |-> 0, calls |-> <<>>, started |-> 0, attempt |-> [r \in Runs |-> 0]]

\* _clean_old_calls: entries older than the window leave the deque's head
RECURSIVE CleanOldCalls(_, _)
CleanOldCalls(calls, now) ==
    IF calls # <<>> /\ now - Head(calls) > WINDOW_SECONDS
    THEN CleanOldCalls(Tail(calls), now)
    ELSE calls

\* can_make_call, after the cleaning
CanMakeCall(calls) == Len(calls) < RATE_LIMIT_CALLS_PER_MINUTE

\* wait_if_needed: one check of its loop; the caller goes on when the check
\* allows the call and sleeps otherwise
WaitIfNeeded(r) ==
    /\ pc[r] = "idle"
    /\ LET cleaned == CleanOldCalls(calc.calls, calc.clock)
       IN  /\ calc' = [calc EXCEPT !.calls = cleaned, !.attempt[r] = 0]
           /\ pc' = [pc EXCEPT ![r] = IF CanMakeCall(cleaned) THEN "post" ELSE "idle"]
    /\ ServiceFrame

\* one pass of the retry loop: the post starts; answered with content the
\* call is recorded and generate_content ends, a request error is retried
RatePost(r) ==
    /\ pc[r] = "post"
    /\ calc.started < MaxCalls
    /\ \E reply \in {"content", "request_error"} :
          /\ calc' = [calc EXCEPT
                         !.started = @ + 1,
                         !.calls = IF reply = "content" THEN Append(@, calc.clock) ELSE @,
                         !.attempt[r] = IF reply = "content" THEN 0 ELSE @ + 1]
          /\ pc' = [pc EXCEPT ![r] =
                       IF reply = "content" \/ AfterRequestError(calc.attempt[r]) # None
                       THEN "idle" ELSE "post"]
    /\ ServiceFrame

\* more than a window of time passes
RateTick ==
    /\ calc.clock < MaxMinutes * (WINDOW_SECONDS + 1)
    /\ calc' = [calc EXCEPT !.clock = @ + WINDOW_SECONDS + 1, !.started = 0]
    /\ UNCHANGED pc
    /\ ServiceFrame

NextRate ==
    \/ \E r \in Runs : WaitIfNeeded(r)
    \/ \E r \in Runs : RatePost(r)
    \/ RateTick

SpecRate == InitRate /\ [][NextRate]_vars

(***************************************************************************)
(* C28: with rate limiting enabled the number of outbound API calls        *)
(* started within a 60-second window never exceeds                         *)
(* RATE_LIMIT_CALLS_PER_MINUTE, for every interleaving of callers that     *)
(* follow wait_if_needed, call, record_call.                               *)
(***************************************************************************)
WindowNeverExceedsLimit == calc.started <= RATE_LIMIT_CALLS_PER_MINUTE

\* the recorded calls of the window have reached the limit and a caller is
\* held back by the check
CallerHeldAtLimit ==
    /\ Len(calc.calls) = RATE_LIMIT_CALLS_PER_MINUTE
    /\ calc.started = RATE_LIMIT_CALLS_PER_MINUTE
    /\ \A r \in Runs : pc[r] = "idle"

====
